---- MODULE Spec2Model ----
(***************************************************************************)
(* lhcli: a command-line client for Longhorn.  One CLI invocation is one   *)
(* action: it reads its flags and the answer on stdin, builds a client     *)
(* (HTTP or CRD backend), sends requests to the remote side and exits.     *)
(* The remote side (Longhorn manager / Kubernetes API) is the environment; *)
(* every request may fail.                                                 *)
(***************************************************************************)
EXTENDS Integers, Sequences, FiniteSets, TLC

VARIABLES
    remote,   \* state held by the Longhorn manager / Kubernetes API
    pc,       \* "idle": a command is about to run; "done": it has exited
    last,     \* what the command that just exited did (inputs, requests, exit status)
    sz,       \* pkg/utils/size.go: input string and results of ParseSize/FormatSizeInGi
    tbl,      \* pkg/formatter: a TableFormatter and the text it printed
    js,       \* pkg/formatter: a value, its JSON encoding and the value decoded
    cf,       \* pkg/config: a configuration, the flags and what getClient made of them
    ts,       \* cmd: the listings troubleshoot got and what it printed
    hp,       \* pkg/utils, pkg/formatter: a call of a helper and what it returned
    mon,      \* pkg/monitor: a monitor, its Start call and its context
    inv,      \* two lhcli invocations that add a tag to the same node at the same time
    dk        \* pkg/client: a node's disks, a disk operation and what it wrote

vars == <<remote, pc, last, sz, tbl, js, cf, ts, hp, mon, inv, dk>>

----------------------------------------------------------------------------
(* Bounds of the model *)

\* longest node tag list held by the remote side
MaxTags == 2

\* in how many respects the remote side differs, when a command starts, from
\* a cluster whose node is untagged and schedulable and whose volumes,
\* replicas, snapshots and disks all exist
MaxDeviations == 1

\* size strings <N>Gi are tried for N up to MaxGi
MaxGi == 30

\* most columns and most rows of a table
MaxCols == 2
MaxRows == 2

----------------------------------------------------------------------------
(* Names the commands are run with *)

NodeName == "n1"
Tags == {"ssd", "test"}
VolumeNames == {"vol1"}
ReplicaNames == {"rep1"}
SnapshotNames == {"snap1"}
DiskIDs == {"disk1"}

\* values of spec.numberOfReplicas; in the remote state 0 stands for "no such volume"
ReplicaCounts == {1, 3}

\* spec.volumeName of a replica object
ReplicaVolume(r) == "vol1"

SeqUpTo(S, n) == UNION {[1..k -> S] : k \in 0..n}

Range(s) == {s[i] : i \in DOMAIN s}

\* s without the elements equal to x, the others in order
RECURSIVE FilterOut(_, _)
FilterOut(s, x) ==
    IF s = <<>> THEN <<>>
    ELSE IF Head(s) = x THEN FilterOut(Tail(s), x)
    ELSE <<Head(s)>> \o FilterOut(Tail(s), x)

----------------------------------------------------------------------------
(* Go slices: nil is not the same as an empty, non-nil slice *)

NilSlice == [isNil |-> TRUE, elems |-> <<>>]
Slice(s) == [isNil |-> FALSE, elems |-> s]
\* append(s, x): never nil
GoAppend(s, x) == [isNil |-> FALSE, elems |-> Append(s.elems, x)]

----------------------------------------------------------------------------
(* The remote side *)

\* statusIsMap: whether the status of the nodes.longhorn.io object is a map
\* (the manager's REST API serves its own typed view of the node)
RemoteStates ==
    [tags : SeqUpTo(Tags, MaxTags),
     allowScheduling : BOOLEAN,
     evictionRequested : BOOLEAN,
     disks : {d \in [DiskIDs -> {"absent", "on", "off"}] : TRUE},
     volumes : [VolumeNames -> ReplicaCounts \cup {0}],
     replicas : SUBSET ReplicaNames,
     snapshots : SUBSET SnapshotNames,
     statusIsMap : BOOLEAN]

\* outcome of the i-th request of a command, chosen by the environment:
\* "ok" (the server handles it), "err" (transport error, no response),
\* or a status the server answers with whatever the request
HTTPOutcomes == {"ok", "err", "404", "405"}
K8sOutcomes == {"ok", "err"}

StatusOK == 200
StatusNotFound == 404
StatusMethodNotAllowed == 405

HTTPMutating == {"POST", "PUT", "PATCH", "DELETE"}
K8sMutating == {"Create", "Update", "Delete"}

\* a request that asks the remote side to change something
IsMutating(rq) == rq.method \in HTTPMutating \cup K8sMutating

\* a request that came back with a transport error or a non-success status
Failed(rq) == rq.failed

----------------------------------------------------------------------------
(* JSON object fields and Go pointers that may be absent / nil *)

NoBool == [set |-> FALSE, val |-> FALSE]
SomeBool(b) == [set |-> TRUE, val |-> b]
NoList == [set |-> FALSE, val |-> <<>>]
SomeList(s) == [set |-> TRUE, val |-> s]
NoDisks == [set |-> FALSE, val |-> [d \in DiskIDs |-> "absent"]]
SomeDisks(m) == [set |-> TRUE, val |-> m]

\* client.NodeUpdate with every field left at its zero value
EmptyNodeUpdate ==
    [AllowScheduling |-> NoBool, EvictionRequested |-> NoBool, Tags |-> NilSlice]

\* encoding/json of a NodeUpdate: nil pointers are omitted, and "omitempty"
\* omits a tag slice that is nil or has no element
MarshalNodeUpdate(u) ==
    [allowScheduling |-> u.AllowScheduling,
     evictionRequested |-> u.EvictionRequested,
     tags |-> IF Len(u.Tags.elems) > 0 THEN SomeList(u.Tags.elems) ELSE NoList,
     disks |-> NoDisks]

NoBody ==
    [allowScheduling |-> NoBool, evictionRequested |-> NoBool, tags |-> NoList,
     disks |-> NoDisks]

\* client.Node as decoded from the manager's JSON or converted from the CRD
NodeOf(rem) ==
    [Name |-> NodeName,
     Tags |-> Slice(rem.tags),
     AllowScheduling |-> rem.allowScheduling,
     EvictionRequested |-> rem.evictionRequested,
     Disks |-> rem.disks]

NoNode ==
    [Name |-> "", Tags |-> NilSlice, AllowScheduling |-> FALSE,
     EvictionRequested |-> FALSE, Disks |-> [d \in DiskIDs |-> "absent"]]

----------------------------------------------------------------------------
(* The Longhorn manager's REST API, as the client uses it *)

\* PUT /v1/nodes/<name>: the fields present in the body replace the node's
ServePutNode(rem, body) ==
    [rem EXCEPT
        !.allowScheduling =
            IF body.allowScheduling.set THEN body.allowScheduling.val ELSE @,
        !.evictionRequested =
            IF body.evictionRequested.set THEN body.evictionRequested.val ELSE @,
        !.tags = IF body.tags.set THEN body.tags.val ELSE @,
        !.disks = IF body.disks.set THEN body.disks.val ELSE @]

\* what a manager that handles the request answers: the new state and the status
Serve(rem, method, path, body) ==
    CASE method = "GET" /\ path = <<"nodes">> ->
            [rem |-> rem, status |-> StatusOK]
      [] method = "GET" /\ path = <<"nodes", NodeName>> ->
            [rem |-> rem, status |-> StatusOK]
      [] method = "PUT" /\ path = <<"nodes", NodeName>> ->
            [rem |-> ServePutNode(rem, body), status |-> StatusOK]
      [] method = "DELETE" /\ Len(path) = 4 /\ path[1] = "nodes" /\ path[3] = "disks" ->
            IF path[4] \in DiskIDs /\ rem.disks[path[4]] # "absent"
            THEN [rem |-> [rem EXCEPT !.disks[path[4]] = "absent"], status |-> StatusOK]
            ELSE [rem |-> rem, status |-> StatusNotFound]
      [] method = "PATCH" /\ Len(path) = 4 /\ path[1] = "nodes" /\ path[3] = "disks" ->
            IF path[4] \in DiskIDs /\ rem.disks[path[4]] # "absent"
            THEN [rem |-> [rem EXCEPT !.disks[path[4]] =
                                IF body.allowScheduling.set
                                THEN (IF body.allowScheduling.val THEN "on" ELSE "off")
                                ELSE @],
                  status |-> StatusOK]
            ELSE [rem |-> rem, status |-> StatusNotFound]
      [] method = "GET" /\ path = <<"replicas">> ->
            [rem |-> rem, status |-> StatusOK]
      [] method \in {"GET", "DELETE"} /\ Len(path) = 2 /\ path[1] = "replicas" ->
            IF path[2] \in rem.replicas
            THEN [rem |-> IF method = "DELETE"
                          THEN [rem EXCEPT !.replicas = @ \ {path[2]}] ELSE rem,
                  status |-> StatusOK]
            ELSE [rem |-> rem, status |-> StatusNotFound]
      [] method = "DELETE" /\ Len(path) = 4 /\ path[1] = "volumes" /\ path[3] = "snapshots" ->
            IF path[4] \in rem.snapshots
            THEN [rem |-> [rem EXCEPT !.snapshots = @ \ {path[4]}], status |-> StatusOK]
            ELSE [rem |-> rem, status |-> StatusNotFound]
      [] method = "GET" /\ path[1] \in {"settings", "engineimages"} ->
            [rem |-> rem, status |-> StatusOK]
      [] OTHER -> [rem |-> rem, status |-> StatusNotFound]

\* Client.doRequest: one HTTP request against baseURL + path.  The result
\* carries the remote state afterwards, the request log, whether the
\* transport failed (err) and the response status.
doRequest(rem, reqs, f, method, path, body) ==
    LET o == f[Len(reqs) + 1]
        served == Serve(rem, method, path, body)
        status == CASE o = "ok" -> served.status
                    [] o = "404" -> StatusNotFound
                    [] o = "405" -> StatusMethodNotAllowed
                    [] OTHER -> 0
        rq == [via |-> "http", method |-> method, path |-> <<"v1">> \o path,
               body |-> body, status |-> status,
               failed |-> (o = "err" \/ status # StatusOK)]
    IN [rem |-> IF o = "ok" THEN served.rem ELSE rem,
        reqs |-> Append(reqs, rq),
        err |-> (o = "err"),
        status |-> status]

----------------------------------------------------------------------------
(* The Kubernetes API (dynamic client) for the longhorn.io/v1beta2 resources *)

\* the spec of the Longhorn node object
NodeSpec(rem) ==
    [tags |-> rem.tags, allowScheduling |-> rem.allowScheduling,
     evictionRequested |-> rem.evictionRequested, disks |-> rem.disks]

NoSpec ==
    [tags |-> <<>>, allowScheduling |-> FALSE, evictionRequested |-> FALSE,
     disks |-> [d \in DiskIDs |-> "absent"]]

\* what an API server that handles the request does to its state
K8sApply(rem, verb, resource, name, spec) ==
    CASE verb = "Update" /\ resource = "nodes" ->
            [rem EXCEPT !.tags = spec.tags,
                        !.allowScheduling = spec.allowScheduling,
                        !.evictionRequested = spec.evictionRequested,
                        !.disks = spec.disks]
      [] verb \in {"Create", "Update"} /\ resource = "volumes" ->
            [rem EXCEPT !.volumes[name] = spec.numberOfReplicas]
      [] verb = "Delete" /\ resource = "volumes" ->
            [rem EXCEPT !.volumes[name] = 0]
      [] verb = "Delete" /\ resource = "replicas" ->
            [rem EXCEPT !.replicas = @ \ {name}]
      [] OTHER -> rem

\* whether the named object exists (Get, Update and Delete of a missing
\* object, and Create of an existing one, are refused by the API server)
K8sAccepts(rem, verb, resource, name) ==
    CASE verb = "List" -> TRUE
      [] resource = "nodes" -> name = NodeName /\ verb \in {"Get", "Update"}
      [] resource = "volumes" /\ verb = "Create" ->
            name \in VolumeNames /\ rem.volumes[name] = 0
      [] resource = "volumes" -> name \in VolumeNames /\ rem.volumes[name] # 0
      [] resource = "replicas" -> name \in rem.replicas
      [] OTHER -> FALSE

\* dynamicClient.Resource(gvr).Namespace(ns).<verb>(...)
dynamicRequest(rem, reqs, f, verb, resource, name, spec) ==
    LET o == f[Len(reqs) + 1]
        accepted == o = "ok" /\ K8sAccepts(rem, verb, resource, name)
        rq == [via |-> "crd", method |-> verb,
               path |-> <<"longhorn.io", "v1beta2", resource, name>>,
               body |-> NoBody, status |-> 0, failed |-> ~accepted]
    IN [rem |-> IF accepted THEN K8sApply(rem, verb, resource, name, spec) ELSE rem,
        reqs |-> Append(reqs, rq),
        err |-> ~accepted,
        status |-> 0]

\* result of a client operation: remote state afterwards, the requests it
\* sent, its error ("" is nil) and its value
Result(rem, reqs, err, val) == [rem |-> rem, reqs |-> reqs, err |-> err, val |-> val]

\* x := <call>; K(x): the call is made once and its result is used by what follows
Bind(x, K(_)) == CHOOSE y \in {K(v) : v \in {x}} : TRUE

----------------------------------------------------------------------------
(* nodeClient: NodeInterface over the REST API *)

nodeClient_List(rem, reqs, f) ==
    Bind(doRequest(rem, reqs, f, "GET", <<"nodes">>, NoBody), LAMBDA r :
        IF r.err THEN Result(r.rem, r.reqs, "request failed", <<>>)
        ELSE IF r.status # StatusOK
             THEN Result(r.rem, r.reqs, "unexpected status code", <<>>)
        ELSE Result(r.rem, r.reqs, "", <<NodeOf(r.rem)>>))

nodeClient_Get(rem, reqs, f, name) ==
    Bind(doRequest(rem, reqs, f, "GET", <<"nodes", name>>, NoBody), LAMBDA r :
        IF r.err THEN Result(r.rem, r.reqs, "request failed", NoNode)
        ELSE IF r.status = StatusNotFound
             THEN Result(r.rem, r.reqs, "node not found", NoNode)
        ELSE IF r.status # StatusOK
             THEN Result(r.rem, r.reqs, "unexpected status code", NoNode)
        ELSE Result(r.rem, r.reqs, "", NodeOf(r.rem)))

nodeClient_Update(rem, reqs, f, name, update) ==
    Bind(doRequest(rem, reqs, f, "PUT", <<"nodes", name>>, MarshalNodeUpdate(update)),
         LAMBDA r :
        IF r.err THEN Result(r.rem, r.reqs, "request failed", NoNode)
        ELSE IF r.status # StatusOK
             THEN Result(r.rem, r.reqs, "failed to update node", NoNode)
        ELSE Result(r.rem, r.reqs, "", NodeOf(r.rem)))

nodeClient_EnableScheduling(rem, reqs, f, name) ==
    nodeClient_Update(rem, reqs, f, name,
        [EmptyNodeUpdate EXCEPT !.AllowScheduling = SomeBool(TRUE)])

nodeClient_DisableScheduling(rem, reqs, f, name) ==
    nodeClient_Update(rem, reqs, f, name,
        [EmptyNodeUpdate EXCEPT !.AllowScheduling = SomeBool(FALSE)])

nodeClient_EvictNode(rem, reqs, f, name) ==
    nodeClient_Update(rem, reqs, f, name,
        [EmptyNodeUpdate EXCEPT !.EvictionRequested = SomeBool(TRUE)])

nodeClient_RemoveDisk(rem, reqs, f, nodeName, diskID) ==
    Bind(doRequest(rem, reqs, f, "DELETE", <<"nodes", nodeName, "disks", diskID>>, NoBody),
         LAMBDA r :
        IF r.err THEN Result(r.rem, r.reqs, "failed to remove disk", NoNode)
        ELSE IF r.status # StatusOK
             THEN Result(r.rem, r.reqs, "failed to remove disk", NoNode)
        ELSE Result(r.rem, r.reqs, "", NoNode))

\* the second half of updateDiskSchedulingViaNode: write all disks back
putDisks(g, f, nodeName, diskID, allowScheduling) ==
    Bind(doRequest(g.rem, g.reqs, f, "PUT", <<"nodes", nodeName>>,
                   [NoBody EXCEPT !.disks = SomeDisks(
                        [g.val.Disks EXCEPT
                            ![diskID] = IF allowScheduling THEN "on" ELSE "off"])]),
         LAMBDA r :
        IF r.err THEN Result(r.rem, r.reqs, "failed to update node", NoNode)
        ELSE IF r.status # StatusOK
             THEN Result(r.rem, r.reqs, "failed to update disk scheduling", NoNode)
        ELSE Result(r.rem, r.reqs, "", NoNode))

\* the fallback of updateDiskScheduling: read the node, write all its disks back
updateDiskSchedulingViaNode(rem, reqs, f, nodeName, diskID, allowScheduling) ==
    Bind(nodeClient_Get(rem, reqs, f, nodeName), LAMBDA g :
        IF g.err # "" THEN Result(g.rem, g.reqs, "failed to get node", NoNode)
        ELSE IF g.val.Disks[diskID] = "absent"
             THEN Result(g.rem, g.reqs, "disk not found", NoNode)
        ELSE putDisks(g, f, nodeName, diskID, allowScheduling))

nodeClient_updateDiskScheduling(rem, reqs, f, nodeName, diskID, allowScheduling) ==
    Bind(doRequest(rem, reqs, f, "PATCH", <<"nodes", nodeName, "disks", diskID>>,
                   [NoBody EXCEPT !.allowScheduling = SomeBool(allowScheduling)]),
         LAMBDA r :
        IF r.err THEN Result(r.rem, r.reqs, "failed to update disk", NoNode)
        ELSE IF r.status \in {StatusMethodNotAllowed, StatusNotFound}
             THEN updateDiskSchedulingViaNode(r.rem, r.reqs, f, nodeName, diskID,
                                              allowScheduling)
        ELSE IF r.status # StatusOK
             THEN Result(r.rem, r.reqs, "failed to update disk scheduling", NoNode)
        ELSE Result(r.rem, r.reqs, "", NoNode))

\* the value of an operation that returns only an error
ErrorOnly(u) == Result(u.rem, u.reqs, u.err, NoNode)

nodeClient_AddNodeTag(rem, reqs, f, nodeName, tag) ==
    Bind(nodeClient_Get(rem, reqs, f, nodeName), LAMBDA g :
        IF g.err # "" THEN ErrorOnly(g)
        ELSE IF tag \in Range(g.val.Tags.elems) THEN ErrorOnly(g)
        ELSE Bind(nodeClient_Update(g.rem, g.reqs, f, nodeName,
                      [EmptyNodeUpdate EXCEPT !.Tags = GoAppend(g.val.Tags, tag)]),
                  ErrorOnly))

\* var tags []string; for ... { if t != tag { tags = append(tags, t) } }:
\* nil unless at least one element was kept
FilterTags(tagsIn, tag) ==
    IF FilterOut(tagsIn.elems, tag) = <<>> THEN NilSlice
    ELSE Slice(FilterOut(tagsIn.elems, tag))

nodeClient_RemoveNodeTag(rem, reqs, f, nodeName, tag) ==
    Bind(nodeClient_Get(rem, reqs, f, nodeName), LAMBDA g :
        IF g.err # "" THEN ErrorOnly(g)
        ELSE Bind(nodeClient_Update(g.rem, g.reqs, f, nodeName,
                      [EmptyNodeUpdate EXCEPT !.Tags = FilterTags(g.val.Tags, tag)]),
                  ErrorOnly))

----------------------------------------------------------------------------
(* crdNodeClient: NodeInterface over the nodes.longhorn.io objects *)

\* the conversion fails if spec or status is no map (the spec of the model
\* always is one)
unstructuredToNode(rem) ==
    IF rem.statusIsMap THEN [err |-> "", val |-> NodeOf(rem)]
    ELSE [err |-> "failed to get status", val |-> NoNode]

\* an item that cannot be converted is logged and left out
crdNodeClient_List(rem, reqs, f) ==
    Bind(dynamicRequest(rem, reqs, f, "List", "nodes", "", NoSpec), LAMBDA r :
        IF r.err THEN Result(r.rem, r.reqs, "failed to list nodes", <<>>)
        ELSE IF unstructuredToNode(r.rem).err # "" THEN Result(r.rem, r.reqs, "", <<>>)
        ELSE Result(r.rem, r.reqs, "", <<unstructuredToNode(r.rem).val>>))

crdNodeClient_Get(rem, reqs, f, name) ==
    Bind(dynamicRequest(rem, reqs, f, "Get", "nodes", name, NoSpec), LAMBDA r :
        IF r.err THEN Result(r.rem, r.reqs, "failed to get node", NoNode)
        ELSE Result(r.rem, r.reqs, unstructuredToNode(r.rem).err,
                    unstructuredToNode(r.rem).val))

\* the spec of the object read, with the fields the update carries replaced
ApplyNodeUpdate(spec, update) ==
    [spec EXCEPT
        !.allowScheduling =
            IF update.AllowScheduling.set THEN update.AllowScheduling.val ELSE @,
        !.evictionRequested =
            IF update.EvictionRequested.set THEN update.EvictionRequested.val ELSE @,
        !.tags = IF ~update.Tags.isNil THEN update.Tags.elems ELSE @]

\* writes the object back with the given spec; Update converts the updated
\* object and returns it, the disk operations return nil
updateNodeObject(g, f, name, spec, convert) ==
    Bind(dynamicRequest(g.rem, g.reqs, f, "Update", "nodes", name, spec), LAMBDA u :
        IF u.err THEN Result(u.rem, u.reqs, "failed to update node", NoNode)
        ELSE IF ~convert THEN Result(u.rem, u.reqs, "", NoNode)
        ELSE Result(u.rem, u.reqs, unstructuredToNode(u.rem).err,
                    unstructuredToNode(u.rem).val))

\* Update that writes even though reading the object failed
crdNodeClient_Update_Blind(rem, reqs, f, name, update) ==
    Bind(dynamicRequest(rem, reqs, f, "Get", "nodes", name, NoSpec), LAMBDA g :
        updateNodeObject(g, f, name, ApplyNodeUpdate(NodeSpec(g.rem), update), TRUE))

\* reads the object, changes the fields the update carries, writes it back
crdNodeClient_Update(rem, reqs, f, name, update) ==
    Bind(dynamicRequest(rem, reqs, f, "Get", "nodes", name, NoSpec), LAMBDA g :
        IF g.err THEN Result(g.rem, g.reqs, "failed to get current node", NoNode)
        ELSE updateNodeObject(g, f, name, ApplyNodeUpdate(NodeSpec(g.rem), update), TRUE))

crdNodeClient_EnableScheduling(rem, reqs, f, name) ==
    crdNodeClient_Update(rem, reqs, f, name,
        [EmptyNodeUpdate EXCEPT !.AllowScheduling = SomeBool(TRUE)])

crdNodeClient_DisableScheduling(rem, reqs, f, name) ==
    crdNodeClient_Update(rem, reqs, f, name,
        [EmptyNodeUpdate EXCEPT !.AllowScheduling = SomeBool(FALSE)])

crdNodeClient_EvictNode(rem, reqs, f, name) ==
    crdNodeClient_Update(rem, reqs, f, name,
        [EmptyNodeUpdate EXCEPT !.EvictionRequested = SomeBool(TRUE)])

crdNodeClient_RemoveDisk(rem, reqs, f, nodeName, diskID) ==
    Bind(dynamicRequest(rem, reqs, f, "Get", "nodes", nodeName, NoSpec), LAMBDA g :
        IF g.err THEN Result(g.rem, g.reqs, "failed to get node", NoNode)
        ELSE IF g.rem.disks[diskID] = "absent"
             THEN Result(g.rem, g.reqs, "disk not found", NoNode)
        ELSE updateNodeObject(g, f, nodeName,
                              [NodeSpec(g.rem) EXCEPT !.disks[diskID] = "absent"], FALSE))

crdNodeClient_updateDiskScheduling(rem, reqs, f, nodeName, diskID, allowScheduling) ==
    Bind(dynamicRequest(rem, reqs, f, "Get", "nodes", nodeName, NoSpec), LAMBDA g :
        IF g.err THEN Result(g.rem, g.reqs, "failed to get node", NoNode)
        ELSE IF g.rem.disks[diskID] = "absent"
             THEN Result(g.rem, g.reqs, "disk not found", NoNode)
        ELSE updateNodeObject(g, f, nodeName,
                 [NodeSpec(g.rem) EXCEPT
                     !.disks[diskID] = IF allowScheduling THEN "on" ELSE "off"], FALSE))

\* AddNodeTag without the loop that looks for the tag
crdNodeClient_AddNodeTag_NoLookup(rem, reqs, f, nodeName, tag) ==
    Bind(crdNodeClient_Get(rem, reqs, f, nodeName), LAMBDA g :
        IF g.err # "" THEN ErrorOnly(g)
        ELSE Bind(crdNodeClient_Update(g.rem, g.reqs, f, nodeName,
                      [EmptyNodeUpdate EXCEPT !.Tags = GoAppend(g.val.Tags, tag)]),
                  ErrorOnly))

crdNodeClient_AddNodeTag(rem, reqs, f, nodeName, tag) ==
    Bind(crdNodeClient_Get(rem, reqs, f, nodeName), LAMBDA g :
        IF g.err # "" THEN ErrorOnly(g)
        ELSE IF tag \in Range(g.val.Tags.elems) THEN ErrorOnly(g)
        ELSE Bind(crdNodeClient_Update(g.rem, g.reqs, f, nodeName,
                      [EmptyNodeUpdate EXCEPT !.Tags = GoAppend(g.val.Tags, tag)]),
                  ErrorOnly))

crdNodeClient_RemoveNodeTag(rem, reqs, f, nodeName, tag) ==
    Bind(crdNodeClient_Get(rem, reqs, f, nodeName), LAMBDA g :
        IF g.err # "" THEN ErrorOnly(g)
        ELSE Bind(crdNodeClient_Update(g.rem, g.reqs, f, nodeName,
                      [EmptyNodeUpdate EXCEPT !.Tags = FilterTags(g.val.Tags, tag)]),
                  ErrorOnly))

----------------------------------------------------------------------------
(* pkg/utils/size.go.  Strings are sequences of characters.  Byte counts    *)
(* do not fit the model checker's integers, so a natural number is a        *)
(* sequence of base-1024 digits, least significant first, without a zero    *)
(* at the high end; every unit multiplier is a power of 1024.               *)

Kibi == 1024

Digits == <<"0", "1", "2", "3", "4", "5", "6", "7", "8", "9">>
LowerCase == <<"a", "b", "c", "d", "e", "f", "g", "h", "i", "j", "k", "l", "m",
               "n", "o", "p", "q", "r", "s", "t", "u", "v", "w", "x", "y", "z">>
UpperCase == <<"A", "B", "C", "D", "E", "F", "G", "H", "I", "J", "K", "L", "M",
               "N", "O", "P", "Q", "R", "S", "T", "U", "V", "W", "X", "Y", "Z">>
WhiteSpace == {" ", "\t", "\n"}

IsDigit(c) == c \in Range(Digits)
DigitVal(c) == (CHOOSE i \in DOMAIN Digits : Digits[i] = c) - 1

ToUpperChar(c) ==
    IF c \in Range(LowerCase)
    THEN UpperCase[CHOOSE i \in DOMAIN LowerCase : LowerCase[i] = c]
    ELSE c
ToLowerChar(c) ==
    IF c \in Range(UpperCase)
    THEN LowerCase[CHOOSE i \in DOMAIN UpperCase : UpperCase[i] = c]
    ELSE c

\* strings.ToUpper, strings.ToLower
ToUpper(s) == [i \in DOMAIN s |-> ToUpperChar(s[i])]
ToLower(s) == [i \in DOMAIN s |-> ToLowerChar(s[i])]

\* strings.TrimSpace
RECURSIVE TrimLeft(_)
TrimLeft(s) == IF s # <<>> /\ Head(s) \in WhiteSpace THEN TrimLeft(Tail(s)) ELSE s
RECURSIVE TrimRight(_)
TrimRight(s) ==
    IF s # <<>> /\ s[Len(s)] \in WhiteSpace THEN TrimRight(SubSeq(s, 1, Len(s) - 1)) ELSE s
TrimSpace(s) == TrimRight(TrimLeft(s))

\* strings.TrimSuffix(s, "B")
TrimSuffixB(s) == IF s # <<>> /\ s[Len(s)] = "B" THEN SubSeq(s, 1, Len(s) - 1) ELSE s

\* drop the zero digits at the high end
RECURSIVE Norm(_)
Norm(n) == IF n # <<>> /\ n[Len(n)] = 0 THEN Norm(SubSeq(n, 1, Len(n) - 1)) ELSE n

\* n * k + c, for small k and c
RECURSIVE MulAdd(_, _, _)
MulAdd(n, k, c) ==
    IF n = <<>> THEN (IF c = 0 THEN <<>> ELSE <<c % Kibi>> \o MulAdd(<<>>, k, c \div Kibi))
    ELSE LET x == Head(n) * k + c
         IN <<x % Kibi>> \o MulAdd(Tail(n), k, x \div Kibi)

\* a + b + c, for a carry c
RECURSIVE AddCarry(_, _, _)
AddCarry(a, b, c) ==
    IF a = <<>> /\ b = <<>> THEN (IF c = 0 THEN <<>> ELSE <<c>>)
    ELSE LET x == (IF a = <<>> THEN 0 ELSE Head(a)) + (IF b = <<>> THEN 0 ELSE Head(b)) + c
         IN <<x % Kibi>> \o AddCarry(IF a = <<>> THEN <<>> ELSE Tail(a),
                                     IF b = <<>> THEN <<>> ELSE Tail(b), x \div Kibi)
Add(a, b) == AddCarry(a, b, 0)

\* quotient and remainder of n by a small k
RECURSIVE DivMod(_, _)
DivMod(n, k) ==
    IF n = <<>> THEN [q |-> <<>>, r |-> 0]
    ELSE LET hi == DivMod(Tail(n), k)
             x == hi.r * Kibi + Head(n)
         IN [q |-> Norm(<<x \div k>> \o hi.q), r |-> x % k]

\* n * 1024^j
RECURSIVE Shift(_, _)
Shift(n, j) == IF j = 0 \/ n = <<>> THEN n ELSE Shift(<<0>> \o n, j - 1)

\* the number a string of decimal digits denotes
RECURSIVE FromDecimal(_, _)
FromDecimal(ds, acc) ==
    IF ds = <<>> THEN acc ELSE FromDecimal(Tail(ds), MulAdd(acc, 10, DigitVal(Head(ds))))

\* the decimal digits of n ("0" for zero)
RECURSIVE ToDecimalRev(_)
ToDecimalRev(n) ==
    IF n = <<>> THEN <<>>
    ELSE LET d == DivMod(n, 10) IN ToDecimalRev(d.q) \o <<Digits[d.r + 1]>>
ToDecimal(n) == IF n = <<>> THEN <<"0">> ELSE ToDecimalRev(n)

\* floor(n / 10^m)
RECURSIVE DivPow10(_, _)
DivPow10(n, m) == IF m = 0 THEN n ELSE DivPow10(DivMod(n, 10).q, m - 1)

\* an int64: sign and magnitude
Int64(neg, mag) == [neg |-> neg, mag |-> mag]
Zero64 == Int64(FALSE, <<>>)
\* 2^63 = 8 * 1024^6
TwoTo63 == <<0, 0, 0, 0, 0, 0, 8>>
MinInt64 == Int64(TRUE, TwoTo63)
MaxInt64 == Int64(FALSE, <<1023, 1023, 1023, 1023, 1023, 1023, 7>>)
\* whether a magnitude is below 2^63
FitsInt64(mag) == Len(mag) < 7 \/ (Len(mag) = 7 /\ mag[7] < 8)

\* what a conversion int64(x) of a float64 x >= 2^63 can yield: the result is
\* implementation-dependent (amd64 yields the least int64, arm64 the greatest)
OutOfRange == {MinInt64, MaxInt64}

\* int64(x) for a non-negative x whose integer part is mag
ToInt64(mag, ovf) == IF FitsInt64(mag) THEN Int64(FALSE, mag) ELSE ovf

\* the longest prefix of s made of digits
RECURSIVE DigitPrefix(_)
DigitPrefix(s) ==
    IF s # <<>> /\ IsDigit(Head(s)) THEN <<Head(s)>> \o DigitPrefix(Tail(s)) ELSE <<>>

Drop(s, n) == SubSeq(s, n + 1, Len(s))

\* the match of ^(\d+(?:\.\d+)?)\s*([KMGTPE]?I?B?)?$ : the digits before
\* and after the point and the unit
MatchSize(s) ==
    LET int == DigitPrefix(s)
        r1 == Drop(s, Len(int))
        frac == IF r1 # <<>> /\ Head(r1) = "." THEN DigitPrefix(Tail(r1)) ELSE <<>>
        r2 == IF frac # <<>> THEN Drop(r1, Len(frac) + 1) ELSE r1
        unit == TrimLeft(r2)
        u1 == IF unit # <<>> /\ Head(unit) \in {"K", "M", "G", "T", "P", "E"}
              THEN Tail(unit) ELSE unit
        u2 == IF u1 # <<>> /\ Head(u1) = "I" THEN Tail(u1) ELSE u1
        u3 == IF u2 # <<>> /\ Head(u2) = "B" THEN Tail(u2) ELSE u2
    IN [ok |-> int # <<>> /\ u3 = <<>>, int |-> int, frac |-> frac, unit |-> unit]

\* the power of 1024 a unit stands for, -1 for an unknown unit
UnitPower(unit) ==
    CASE unit \in {<<"K">>, <<"K", "I">>} -> 1
      [] unit \in {<<"M">>, <<"M", "I">>} -> 2
      [] unit \in {<<"G">>, <<"G", "I">>} -> 3
      [] unit \in {<<"T">>, <<"T", "I">>} -> 4
      [] unit \in {<<"P">>, <<"P", "I">>} -> 5
      [] unit \in {<<"E">>, <<"E", "I">>} -> 6
      [] unit = <<>> -> 0
      [] OTHER -> -1

\* ParseSize: (bytes, error).  ovf is what the build yields for an
\* out-of-range conversion to int64.  The float64 arithmetic is exact on
\* the numbers used here (fewer than 2^53 in the integer part, at most two
\* fraction digits on small values).
ParseSize(size, ovf) ==
    IF size = <<>> \/ size = <<"0">> THEN [err |-> FALSE, bytes |-> Zero64]
    ELSE LET m == MatchSize(TrimSpace(ToUpper(size)))
             int == FromDecimal(m.int, <<>>)
             p == UnitPower(TrimSuffixB(m.unit))
             frac == DivPow10(Shift(FromDecimal(m.frac, <<>>), p), Len(m.frac))
         IN IF ~m.ok THEN [err |-> TRUE, bytes |-> Zero64]
            ELSE IF m.unit = <<>> THEN [err |-> FALSE, bytes |-> ToInt64(int, ovf)]
            ELSE IF p < 0 THEN [err |-> TRUE, bytes |-> Zero64]
            ELSE [err |-> FALSE, bytes |-> ToInt64(Add(Shift(int, p), frac), ovf)]

\* a natural number below 1024^3 as an integer of the model
Low3(n) ==
    (IF Len(n) >= 1 THEN n[1] ELSE 0) + (IF Len(n) >= 2 THEN n[2] * Kibi ELSE 0)
    + (IF Len(n) >= 3 THEN n[3] * Kibi * Kibi ELSE 0)

\* FormatSizeInGi: "%.2fGi" of bytes / 1024^3, rounded to the nearest
\* hundredth, ties to even
FormatSizeInGi(bytes) ==
    LET whole == Norm(Drop(bytes.mag, 3))
        rest == Norm(SubSeq(bytes.mag, 1, IF Len(bytes.mag) < 3 THEN Len(bytes.mag) ELSE 3))
        scaled == MulAdd(rest, 100, 0)
        h == IF Len(scaled) >= 4 THEN scaled[4] ELSE 0
        left == Low3(scaled)
        half == 512 * Kibi * Kibi
        up == left > half \/ (left = half /\ h % 2 = 1)
        hundredths == IF up THEN h + 1 ELSE h
        w == IF hundredths = 100 THEN MulAdd(whole, 1, 1) ELSE whole
        hh == hundredths % 100
    IN (IF bytes.neg THEN <<"-">> ELSE <<>>)
       \o ToDecimal(w)
       \o <<".", Digits[(hh \div 10) + 1], Digits[(hh % 10) + 1], "G", "i">>

----------------------------------------------------------------------------
(* pkg/formatter: TableFormatter, and the text/tabwriter it writes to     *)
(* (minwidth 0, tabwidth 0, padding 3, padchar ' ', flags 0).  A cell and *)
(* a line of output are sequences of characters.                          *)

MinWidth == 0
Padding == 3

\* the greatest element of a non-empty set of numbers
Max(S) == CHOOSE x \in S : \A y \in S : y <= x

\* n spaces
Spaces(n) == [i \in 1..n |-> " "]

\* strings.Join(cells, "\t")
RECURSIVE Join(_)
Join(cells) ==
    IF cells = <<>> THEN <<>>
    ELSE IF Len(cells) = 1 THEN cells[1]
    ELSE cells[1] \o <<"\t">> \o Join(Tail(cells))

\* fmt.Fprintln(w, strings.Join(...)) of the headers, if there are any, and
\* then of every row: the text the tabwriter is given
RECURSIVE Fprintln(_)
Fprintln(rows) ==
    IF rows = <<>> THEN <<>> ELSE Join(rows[1]) \o <<"\n">> \o Fprintln(Tail(rows))

Written(headers, rows) ==
    Fprintln((IF Len(headers) > 0 THEN <<headers>> ELSE <<>>) \o rows)

\* tabwriter.Write: a tab ends a cell, a newline ends a cell and a line.
\* lines are the finished lines, line the finished cells of the current
\* line and cell the text of the current cell.
RECURSIVE Write(_, _, _, _)
Write(text, lines, line, cell) ==
    IF text = <<>> THEN lines \o <<Append(line, cell)>>
    ELSE IF Head(text) = "\t" THEN Write(Tail(text), lines, Append(line, cell), <<>>)
    ELSE IF Head(text) = "\n"
         THEN Write(Tail(text), Append(lines, Append(line, cell)), <<>>, <<>>)
    ELSE Write(Tail(text), lines, line, Append(cell, Head(text)))

\* whether a line has a tab-terminated cell in the column after the columns
\* whose widths are known (the last cell of a line is in no column)
HasCell(line, column) == column < Len(line) - 1

\* the number of lines, from the first on, that form a column block
RECURSIVE BlockLength(_, _)
BlockLength(lines, column) ==
    IF lines = <<>> \/ ~HasCell(lines[1], column) THEN 0
    ELSE 1 + BlockLength(Tail(lines), column)

\* the width of the first line's cell alone
BlockWidth_FirstLine(block, column) ==
    Max({MinWidth, Len(block[1][column + 1]) + Padding})

\* the width of a column block: its widest cell and the padding
BlockWidth(block, column) ==
    Max({MinWidth} \cup {Len(block[i][column + 1]) + Padding : i \in DOMAIN block})

\* writeLines for one line: a cell in a column of known width is padded
\* with spaces to that width, the other cells are written as they are
RECURSIVE WriteCells(_, _, _)
WriteCells(line, widths, j) ==
    IF j > Len(line) THEN <<>>
    ELSE line[j]
         \o (IF j <= Len(widths) THEN Spaces(widths[j] - Len(line[j])) ELSE <<>>)
         \o WriteCells(line, widths, j + 1)

\* Writer.format: the lines from the first on are written with the widths
\* known so far, until one has a cell in the next column; that line starts
\* a column block, whose width is found and which is formatted in turn
RECURSIVE format(_, _)
format(lines, widths) ==
    IF lines = <<>> THEN <<>>
    ELSE IF ~HasCell(lines[1], Len(widths))
         THEN <<WriteCells(lines[1], widths, 1)>> \o format(Tail(lines), widths)
    ELSE format(SubSeq(lines, 1, BlockLength(lines, Len(widths))),
                Append(widths,
                       BlockWidth(SubSeq(lines, 1, BlockLength(lines, Len(widths))),
                                  Len(widths))))
         \o format(SubSeq(lines, BlockLength(lines, Len(widths)) + 1, Len(lines)), widths)

\* Writer.Flush: what is after the last newline is a line of its own, and
\* is empty here because Fprintln ends every line
DropLast(s) == SubSeq(s, 1, Len(s) - 1)

\* TableFormatter.Format(nil): the lines printed
TableFormat(headers, rows) == format(DropLast(Write(Written(headers, rows), <<>>, <<>>, <<>>)), <<>>)

\* TableFormatter.AddRow
AddRow(rows, row) == Append(rows, row)

----------------------------------------------------------------------------
(* VolumeInterface *)

\* client.Volume as converted by unstructuredToVolume, with the given replicas
VolumeOf(rem, name, replicas) ==
    [Name |-> name, NumberOfReplicas |-> rem.volumes[name], Replicas |-> replicas]

NoVolume == [Name |-> "", NumberOfReplicas |-> 0, Replicas |-> {}]

ExistingVolumes(rem) == {v \in VolumeNames : rem.volumes[v] # 0}

ReplicasOf(rem, v) == {r \in rem.replicas : ReplicaVolume(r) = v}

\* volumeClient: every verb of the REST backend is a stub
volumeClient_List(rem, reqs, f) == Result(rem, reqs, "not implemented", {})
volumeClient_Get(rem, reqs, f, name) == Result(rem, reqs, "not implemented", NoVolume)
volumeClient_Create(rem, reqs, f, input) == Result(rem, reqs, "not implemented", NoVolume)
volumeClient_Delete(rem, reqs, f, name) == Result(rem, reqs, "not implemented", NoVolume)
volumeClient_Update(rem, reqs, f, name, update) ==
    Result(rem, reqs, "not implemented", NoVolume)

\* the second half of crdVolumeClient.List and Get: the replicas are listed
\* and attached (withReplicas; a listing changes nothing on the remote side);
\* when that listing fails the volumes are returned without
attachReplicas(l, f, volumes, withReplicas) ==
    Bind(dynamicRequest(l.rem, l.reqs, f, "List", "replicas", "", NoSpec), LAMBDA rl :
        IF rl.err THEN Result(rl.rem, rl.reqs, "", volumes)
        ELSE Result(rl.rem, rl.reqs, "", withReplicas))

\* the volumes as they are before the replicas are assigned
WithReplicasAll_Unassigned(volumes, rem) == volumes

WithReplicasAll(volumes, rem) ==
    {[v EXCEPT !.Replicas = ReplicasOf(rem, v.Name)] : v \in volumes}

WithReplicas(volume, rem) == [volume EXCEPT !.Replicas = ReplicasOf(rem, volume.Name)]

crdVolumeClient_List(rem, reqs, f) ==
    Bind(dynamicRequest(rem, reqs, f, "List", "volumes", "", NoSpec), LAMBDA l :
        IF l.err THEN Result(l.rem, l.reqs, "failed to list volumes", {})
        ELSE attachReplicas(l, f, {VolumeOf(l.rem, v, {}) : v \in ExistingVolumes(l.rem)},
                 WithReplicasAll({VolumeOf(l.rem, v, {}) : v \in ExistingVolumes(l.rem)},
                                 l.rem)))

crdVolumeClient_Get(rem, reqs, f, name) ==
    Bind(dynamicRequest(rem, reqs, f, "Get", "volumes", name, NoSpec), LAMBDA g :
        IF g.err THEN Result(g.rem, g.reqs, "failed to get volume", NoVolume)
        ELSE attachReplicas(g, f, VolumeOf(g.rem, name, {}),
                            WithReplicas(VolumeOf(g.rem, name, {}), g.rem)))

crdVolumeClient_Delete(rem, reqs, f, name) ==
    Bind(dynamicRequest(rem, reqs, f, "Delete", "volumes", name, NoSpec), LAMBDA d :
        IF d.err THEN Result(d.rem, d.reqs, "failed to delete volume", NoVolume)
        ELSE Result(d.rem, d.reqs, "", NoVolume))

\* writes the volume object with the given spec
writeVolumeObject(g, f, verb, name, spec, failure) ==
    Bind(dynamicRequest(g.rem, g.reqs, f, verb, "volumes", name, spec), LAMBDA u :
        IF u.err THEN Result(u.rem, u.reqs, failure, NoVolume)
        ELSE Result(u.rem, u.reqs, "", VolumeOf(u.rem, name, {})))

\* update.NumberOfReplicas is a pointer: nil leaves spec.numberOfReplicas alone
crdVolumeClient_Update(rem, reqs, f, name, update) ==
    Bind(dynamicRequest(rem, reqs, f, "Get", "volumes", name, NoSpec), LAMBDA g :
        IF g.err THEN Result(g.rem, g.reqs, "failed to get current volume", NoVolume)
        ELSE writeVolumeObject(g, f, "Update", name,
                 [numberOfReplicas |->
                     IF update.NumberOfReplicas.set
                     THEN update.NumberOfReplicas.val ELSE g.rem.volumes[name]],
                 "failed to update volume"))

\* the size string is parsed before anything is sent
crdVolumeClient_Create(rem, reqs, f, input) ==
    IF \E ovf \in OutOfRange : ParseSize(input.Size, ovf).err
    THEN Result(rem, reqs, "invalid size", NoVolume)
    ELSE writeVolumeObject([rem |-> rem, reqs |-> reqs], f, "Create", input.Name,
                           [numberOfReplicas |-> input.NumberOfReplicas],
                           "failed to create volume")

----------------------------------------------------------------------------
(* ReplicaInterface, SnapshotInterface, SettingsInterface, EngineImageInterface *)

replicaClient_List(rem, reqs, f) ==
    Bind(doRequest(rem, reqs, f, "GET", <<"replicas">>, NoBody), LAMBDA r :
        IF r.err THEN Result(r.rem, r.reqs, "request failed", {})
        ELSE IF r.status # StatusOK THEN Result(r.rem, r.reqs, "unexpected status code", {})
        ELSE Result(r.rem, r.reqs, "", r.rem.replicas))

replicaClient_Get(rem, reqs, f, name) ==
    Bind(doRequest(rem, reqs, f, "GET", <<"replicas", name>>, NoBody), LAMBDA r :
        IF r.err THEN Result(r.rem, r.reqs, "request failed", "")
        ELSE IF r.status = StatusNotFound THEN Result(r.rem, r.reqs, "replica not found", "")
        ELSE IF r.status # StatusOK THEN Result(r.rem, r.reqs, "unexpected status code", "")
        ELSE Result(r.rem, r.reqs, "", name))

replicaClient_Delete(rem, reqs, f, name) ==
    Bind(doRequest(rem, reqs, f, "DELETE", <<"replicas", name>>, NoBody), LAMBDA r :
        IF r.err THEN Result(r.rem, r.reqs, "request failed", "")
        ELSE IF r.status # StatusOK THEN Result(r.rem, r.reqs, "unexpected status code", "")
        ELSE Result(r.rem, r.reqs, "", ""))

crdReplicaClient_List(rem, reqs, f) ==
    Bind(dynamicRequest(rem, reqs, f, "List", "replicas", "", NoSpec), LAMBDA r :
        IF r.err THEN Result(r.rem, r.reqs, "failed to list replicas", {})
        ELSE Result(r.rem, r.reqs, "", r.rem.replicas))

crdReplicaClient_Get(rem, reqs, f, name) ==
    Bind(dynamicRequest(rem, reqs, f, "Get", "replicas", name, NoSpec), LAMBDA r :
        IF r.err THEN Result(r.rem, r.reqs, "failed to get replica", "")
        ELSE Result(r.rem, r.reqs, "", name))

crdReplicaClient_Delete(rem, reqs, f, name) ==
    Bind(dynamicRequest(rem, reqs, f, "Delete", "replicas", name, NoSpec), LAMBDA r :
        IF r.err THEN Result(r.rem, r.reqs, "failed to delete replica", "")
        ELSE Result(r.rem, r.reqs, "", ""))

snapshotClient_Delete(rem, reqs, f, volumeName, snapshotName) ==
    Bind(doRequest(rem, reqs, f, "DELETE",
                   <<"volumes", volumeName, "snapshots", snapshotName>>, NoBody), LAMBDA r :
        IF r.err THEN Result(r.rem, r.reqs, "request failed", "")
        ELSE IF r.status # StatusOK THEN Result(r.rem, r.reqs, "unexpected status code", "")
        ELSE Result(r.rem, r.reqs, "", ""))

crdSnapshotClient_Delete(rem, reqs, f, volumeName, snapshotName) ==
    Result(rem, reqs, "snapshot delete via CRD not implemented", "")

settingsClient_Get(rem, reqs, f, name) ==
    Bind(doRequest(rem, reqs, f, "GET", <<"settings", name>>, NoBody), LAMBDA r :
        IF r.err THEN Result(r.rem, r.reqs, "request failed", "")
        ELSE IF r.status = StatusNotFound THEN Result(r.rem, r.reqs, "setting not found", "")
        ELSE IF r.status # StatusOK THEN Result(r.rem, r.reqs, "unexpected status code", "")
        ELSE Result(r.rem, r.reqs, "", name))

engineImageClient_List(rem, reqs, f) ==
    Bind(doRequest(rem, reqs, f, "GET", <<"engineimages">>, NoBody), LAMBDA r :
        IF r.err THEN Result(r.rem, r.reqs, "request failed", "")
        ELSE IF r.status # StatusOK THEN Result(r.rem, r.reqs, "unexpected status code", "")
        ELSE Result(r.rem, r.reqs, "", ""))

----------------------------------------------------------------------------
(* client.Client and the interfaces it hands out *)

\* NewClient: a client of the REST API
NewClient(token) == [httpClient |-> TRUE, crdClient |-> FALSE, token |-> token]
\* NewLonghornCRDClient: httpClient is nil
NewLonghornCRDClient == [httpClient |-> FALSE, crdClient |-> TRUE, token |-> ""]
NoClient == [httpClient |-> FALSE, crdClient |-> FALSE, token |-> ""]

\* ctx.Auth.Type of the current context
AuthTypes == {"kubeconfig", "token", "none", "basic"}

\* getClient: (client, error)
getClient(auth) ==
    CASE auth = "kubeconfig" -> [client |-> NewLonghornCRDClient, err |-> ""]
      [] auth = "token" -> [client |-> NewClient("secret"), err |-> ""]
      [] auth \in {"none", ""} -> [client |-> NewClient(""), err |-> ""]
      [] OTHER -> [client |-> NoClient, err |-> "unsupported auth type"]

\* Client.Nodes, Client.Volumes, ...: a call through the interface the accessor
\* hands out runs the CRD implementation (crd) if there is a CRD client, the
\* REST implementation (http) otherwise
Nodes(c, crd, http) == IF c.crdClient THEN crd ELSE http
Volumes(c, crd, http) == IF c.crdClient THEN crd ELSE http
Replicas(c, crd, http) == IF c.crdClient THEN crd ELSE http
Snapshots(c, crd, http) == IF c.crdClient THEN crd ELSE http

\* Client.Settings and Client.EngineImages always hand out the REST
\* implementation; with a nil httpClient its doRequest panics
Settings_Get(c, rem, reqs, f, name) ==
    IF c.httpClient THEN settingsClient_Get(rem, reqs, f, name)
    ELSE Result(rem, reqs, "panic", "")
EngineImages_List(c, rem, reqs, f) ==
    IF c.httpClient THEN engineImageClient_List(rem, reqs, f)
    ELSE Result(rem, reqs, "panic", "")

----------------------------------------------------------------------------
(* pkg/utils.Confirm *)

\* what is waiting on standard input: the characters before the end of the
\* line, and whether the input ends before a newline
Stdin(line, eof) == [line |-> line, eof |-> eof]

Answers ==
    {Stdin(<<"y">>, FALSE), Stdin(<<" ", "Y", "e", "s">>, FALSE), Stdin(<<"n">>, FALSE),
     Stdin(<<"y">>, TRUE)}

\* inputs for the commands that never read it
Unread == {Stdin(<<"n">>, FALSE), Stdin(<<>>, TRUE)}

\* ReadString('\n') fails when the input ends before a newline
Confirm(in) ==
    IF in.eof THEN FALSE
    ELSE ToLower(TrimSpace(in.line)) \in {<<"y">>, <<"y", "e", "s">>}

----------------------------------------------------------------------------
(* The commands.  A run is what one invocation did: the remote state it   *)
(* left, the requests it sent, the client operations it called, the error *)
(* its handler returned ("" is nil), what it printed and the value shown. *)

Run(rem, reqs, calls, err, out, val) ==
    [rem |-> rem, reqs |-> reqs, calls |-> calls, err |-> err, out |-> out, val |-> val]

\* a client operation called when reqs had been sent, with result r
Call(op, reqs, r) == [op |-> op, first |-> Len(reqs) + 1, last |-> Len(r.reqs), err |-> r.err]

\* c, err := getClient(); if err != nil { return err }; then the rest
WithClient(auth, rem, run) ==
    IF getClient(auth).err # "" THEN Run(rem, <<>>, <<>>, getClient(auth).err, "", "")
    ELSE run

\* a handler that calls one client operation and returns nil whatever it returned
OneCall_Swallow(op, res, failure, success) ==
    Bind(res, LAMBDA r :
        Run(r.rem, r.reqs, <<Call(op, <<>>, r)>>, "", success, r.val))

\* a handler that calls one client operation and fails if it fails
OneCall(op, res, failure, success) ==
    Bind(res, LAMBDA r :
        Run(r.rem, r.reqs, <<Call(op, <<>>, r)>>,
            IF r.err # "" THEN failure ELSE "", IF r.err # "" THEN "" ELSE success, r.val))

\* an invocation that stops at its question
Cancelled(rem, out) == Run(rem, <<>>, <<>>, "", out, "")

\* --show-replicas: the nodes are listed too; a failure is only a warning
listNodesForReplicas(c, l, f) ==
    Bind(Nodes(c, crdNodeClient_List(l.rem, l.reqs, f),
               nodeClient_List(l.rem, l.reqs, f)), LAMBDA n :
        Run(n.rem, n.reqs,
            <<Call("Volumes.List", <<>>, l), Call("Nodes.List", l.reqs, n)>>, "",
            IF n.err # "" THEN "Warning: failed to fetch node information" ELSE "table",
            l.val))

\* the deletion that follows a successful Replicas().Get
deleteReplica(c, g, f, name) ==
    Bind(Replicas(c, crdReplicaClient_Delete(g.rem, g.reqs, f, name),
                  replicaClient_Delete(g.rem, g.reqs, f, name)), LAMBDA d :
        Run(d.rem, d.reqs,
            <<Call("Replicas.Get", <<>>, g), Call("Replicas.Delete", g.reqs, d)>>,
            IF d.err # "" THEN "failed to delete replica" ELSE "",
            IF d.err # "" THEN "" ELSE "deleted successfully", ""))

\* the issues troubleshoot reports about volumes and replicas
VolumeIssues(v, r) ==
    IF v.err # "" THEN {"failed to list volumes"}
    ELSE IF r.err # "" THEN {"failed to list replicas"}
    ELSE IF \E x \in r.val : ReplicaVolume(x) \notin {y.Name : y \in v.val}
         THEN {"orphaned replica"} ELSE {}

\* the issues troubleshoot reports about nodes
NodeIssues(n) ==
    IF n.err # "" THEN {"failed to list nodes"}
    ELSE IF \E i \in DOMAIN n.val : ~n.val[i].AllowScheduling
         THEN {"scheduling disabled"} ELSE {}

\* the node check of troubleshoot, after the calls made so far
troubleshootNodes(c, prev, calls, issues, f) ==
    Bind(Nodes(c, crdNodeClient_List(prev.rem, prev.reqs, f),
               nodeClient_List(prev.rem, prev.reqs, f)), LAMBDA n :
        Run(n.rem, n.reqs, Append(calls, Call("Nodes.List", prev.reqs, n)), "",
            IF issues \cup NodeIssues(n) = {} THEN "No issues detected"
            ELSE "Potential issues:", issues \cup NodeIssues(n)))

\* the replica check of troubleshoot, made when the volumes were listed
troubleshootReplicas(c, v, f) ==
    Bind(Replicas(c, crdReplicaClient_List(v.rem, v.reqs, f),
                  replicaClient_List(v.rem, v.reqs, f)), LAMBDA r :
        troubleshootNodes(c, r,
            <<Call("Volumes.List", <<>>, v), Call("Replicas.List", v.reqs, r)>>,
            VolumeIssues(v, r), f))

\* the engine image listing of diagnostics: a failure is a warning
diagnoseEngineImages(c, s1, s2, f) ==
    Bind(EngineImages_List(c, s2.rem, s2.reqs, f), LAMBDA e :
        Run(e.rem, e.reqs,
            <<Call("Settings.Get", <<>>, s1), Call("Settings.Get", s1.reqs, s2),
              Call("EngineImages.List", s2.reqs, e)>>, "",
            IF e.err # "" THEN "Warning: failed to list engine images"
            ELSE "Engine Images:", ""))

\* main: a handler error exits with status 1, a panic with status 2
ExitStatus(err) == IF err = "" THEN 0 ELSE IF err = "panic" THEN 2 ELSE 1

NoStdin == Stdin(<<>>, TRUE)

NoLast ==
    [cmd |-> "", auth |-> "", dryRun |-> FALSE, force |-> FALSE, stdin |-> NoStdin,
     args |-> <<>>, before |-> <<>>, reqs |-> <<>>, calls |-> <<>>, err |-> "",
     exit |-> 0, out |-> "", val |-> ""]

NoSize == <<>>
NoTable == <<>>
NoJSON == <<>>
NoConfig == <<>>
NoReport == <<>>
NoCall == <<>>
NoMonitor == <<>>
NoInvocations == <<>>
NoDiskCall == <<>>

\* the outcomes of the requests of one invocation
Faults(auth, nHTTP, nCRD) ==
    IF auth = "kubeconfig" THEN [1..nCRD -> K8sOutcomes] ELSE [1..nHTTP -> HTTPOutcomes]

Deviations(r) ==
    (IF r.tags # <<>> THEN 1 ELSE 0)
    + (IF r.allowScheduling THEN 0 ELSE 1)
    + (IF r.evictionRequested THEN 1 ELSE 0)
    + Cardinality({d \in DiskIDs : r.disks[d] # "on"})
    + Cardinality({v \in VolumeNames : r.volumes[v] # 3})
    + Cardinality(ReplicaNames \ r.replicas)
    + Cardinality(SnapshotNames \ r.snapshots)
    + (IF r.statusIsMap THEN 0 ELSE 1)

\* the remote side is in any of these states when a command starts
InitialRemotes == {r \in RemoteStates : Deviations(r) <= MaxDeviations}

Init ==
    /\ remote \in InitialRemotes
    /\ pc = "idle"
    /\ last = NoLast
    /\ sz = NoSize
    /\ tbl = NoTable
    /\ js = NoJSON
    /\ cf = NoConfig
    /\ ts = NoReport
    /\ hp = NoCall
    /\ mon = NoMonitor
    /\ inv = NoInvocations
    /\ dk = NoDiskCall

\* one invocation: the handler runs to its end and the process exits
Exec(cmd, auth, dryRun, force, stdin, args, run) ==
    /\ pc = "idle"
    /\ \E r \in {run} :
         /\ remote' = r.rem
         /\ last' = [cmd |-> cmd, auth |-> auth, dryRun |-> dryRun, force |-> force,
                     stdin |-> stdin, args |-> args, before |-> remote, reqs |-> r.reqs,
                     calls |-> r.calls, err |-> r.err, exit |-> ExitStatus(r.err),
                     out |-> r.out, val |-> r.val]
    /\ pc' = "done"
    /\ UNCHANGED <<sz, tbl, js, cf, ts, hp, mon, inv, dk>>

\* values of --size and --replicas on the command line
SizeFlags == {<<"1", "0", "G", "i">>, <<"1", "0", "X">>}
ReplicaFlag(n) == IF n = 0 THEN "0" ELSE IF n = 1 THEN "1" ELSE "3"

runVolumeList ==
    \E auth \in AuthTypes, dryRun \in BOOLEAN, showReplicas \in BOOLEAN :
      \E f \in Faults(auth, 0, 3) :
        Exec("volume list", auth, dryRun, FALSE, NoStdin,
             IF showReplicas THEN <<"--show-replicas">> ELSE <<>>,
             WithClient(auth, remote, LET c == getClient(auth).client IN
                Bind(Volumes(c, crdVolumeClient_List(remote, <<>>, f),
                             volumeClient_List(remote, <<>>, f)), LAMBDA l :
                    IF l.err # ""
                    THEN OneCall("Volumes.List", l, "failed to list volumes", "")
                    ELSE IF showReplicas THEN listNodesForReplicas(c, l, f)
                    ELSE OneCall("Volumes.List", l, "", "table"))))

runVolumeGet ==
    \E auth \in AuthTypes, dryRun \in BOOLEAN, name \in VolumeNames :
      \E f \in Faults(auth, 0, 2) :
        Exec("volume get", auth, dryRun, FALSE, NoStdin, <<name>>,
             WithClient(auth, remote, LET c == getClient(auth).client IN
                OneCall("Volumes.Get",
                        Volumes(c, crdVolumeClient_Get(remote, <<>>, f, name),
                                volumeClient_Get(remote, <<>>, f, name)),
                        "failed to get volume", "details")))

runVolumeCreate ==
    \E auth \in AuthTypes, dryRun \in BOOLEAN, name \in VolumeNames,
       size \in SizeFlags, replicas \in ReplicaCounts :
      \E f \in Faults(auth, 0, 1) :
        Exec("volume create", auth, dryRun, FALSE, NoStdin,
             <<name, "--size", size, "--replicas", ReplicaFlag(replicas)>>,
             WithClient(auth, remote, LET c == getClient(auth).client IN
                OneCall("Volumes.Create",
                        Volumes(c, crdVolumeClient_Create(remote, <<>>, f, [Name |-> name, Size |-> size, NumberOfReplicas |-> replicas]),
                                volumeClient_Create(remote, <<>>, f, [Name |-> name, Size |-> size, NumberOfReplicas |-> replicas])),
                        "failed to create volume", "created successfully")))

\* --replicas 0 means no change; no other update flag is given here
runVolumeUpdate ==
    \E auth \in AuthTypes, dryRun \in BOOLEAN, name \in VolumeNames,
       replicas \in ReplicaCounts \cup {0} :
      \E f \in Faults(auth, 0, 2) :
        Exec("volume update", auth, dryRun, FALSE, NoStdin,
             <<name, "--replicas", ReplicaFlag(replicas)>>,
             IF replicas = 0 THEN Run(remote, <<>>, <<>>, "no updates specified", "", "")
             ELSE WithClient(auth, remote, LET c == getClient(auth).client IN
                    OneCall("Volumes.Update",
                            Volumes(c, crdVolumeClient_Update(remote, <<>>, f, name, [NumberOfReplicas |-> [set |-> TRUE, val |-> replicas]]),
                                    volumeClient_Update(remote, <<>>, f, name, [NumberOfReplicas |-> [set |-> TRUE, val |-> replicas]])),
                            "failed to update volume", "updated successfully")))

runVolumeDelete ==
    \E auth \in AuthTypes, dryRun \in BOOLEAN, force \in BOOLEAN, in \in Answers,
       name \in VolumeNames :
      \E f \in Faults(auth, 0, 1) :
        Exec("volume delete", auth, dryRun, force, in, <<name>>,
             IF ~force /\ ~Confirm(in) THEN Cancelled(remote, "Deletion cancelled")
             ELSE WithClient(auth, remote, LET c == getClient(auth).client IN
                    OneCall("Volumes.Delete",
                            Volumes(c, crdVolumeClient_Delete(remote, <<>>, f, name),
                                    volumeClient_Delete(remote, <<>>, f, name)),
                            "failed to delete volume", "deleted successfully")))

runNodeList ==
    \E auth \in AuthTypes, dryRun \in BOOLEAN :
      \E f \in Faults(auth, 1, 1) :
        Exec("node list", auth, dryRun, FALSE, NoStdin, <<>>,
             WithClient(auth, remote, LET c == getClient(auth).client IN
                OneCall("Nodes.List", Nodes(c, crdNodeClient_List(remote, <<>>, f),
                                            nodeClient_List(remote, <<>>, f)),
                        "failed to list nodes", "table")))

runNodeGet ==
    \E auth \in AuthTypes, dryRun \in BOOLEAN :
      \E f \in Faults(auth, 1, 1) :
        Exec("node get", auth, dryRun, FALSE, NoStdin, <<NodeName>>,
             WithClient(auth, remote, LET c == getClient(auth).client IN
                OneCall("Nodes.Get",
                        Nodes(c, crdNodeClient_Get(remote, <<>>, f, NodeName),
                              nodeClient_Get(remote, <<>>, f, NodeName)),
                        "failed to get node", "details")))

runNodeSchedulingEnable ==
    \E auth \in AuthTypes, dryRun \in BOOLEAN :
      \E f \in Faults(auth, 1, 2) :
        Exec("node scheduling enable", auth, dryRun, FALSE, NoStdin, <<NodeName>>,
             WithClient(auth, remote, LET c == getClient(auth).client IN
                OneCall("Nodes.EnableScheduling",
                        Nodes(c, crdNodeClient_EnableScheduling(remote, <<>>, f, NodeName),
                              nodeClient_EnableScheduling(remote, <<>>, f, NodeName)),
                        "failed to enable scheduling", "Scheduling enabled")))

runNodeSchedulingDisable ==
    \E auth \in AuthTypes, dryRun \in BOOLEAN :
      \E f \in Faults(auth, 1, 2) :
        Exec("node scheduling disable", auth, dryRun, FALSE, NoStdin, <<NodeName>>,
             WithClient(auth, remote, LET c == getClient(auth).client IN
                OneCall("Nodes.DisableScheduling",
                        Nodes(c, crdNodeClient_DisableScheduling(remote, <<>>, f, NodeName),
                              nodeClient_DisableScheduling(remote, <<>>, f, NodeName)),
                        "failed to disable scheduling", "Scheduling disabled")))

runNodeEvict ==
    \E auth \in AuthTypes, dryRun \in BOOLEAN, force \in BOOLEAN, in \in Answers :
      \E f \in Faults(auth, 1, 2) :
        Exec("node evict", auth, dryRun, force, in, <<NodeName>>,
             IF ~force /\ ~Confirm(in) THEN Cancelled(remote, "Eviction cancelled")
             ELSE WithClient(auth, remote, LET c == getClient(auth).client IN
                    OneCall("Nodes.EvictNode",
                            Nodes(c, crdNodeClient_EvictNode(remote, <<>>, f, NodeName),
                                  nodeClient_EvictNode(remote, <<>>, f, NodeName)),
                            "failed to evict node", "Eviction requested")))

\* the tag list of the model holds at most MaxTags tags
runNodeTagAdd ==
    \E auth \in AuthTypes, dryRun \in BOOLEAN, tag \in Tags :
      \E f \in Faults(auth, 2, 3) :
        /\ tag \in Range(remote.tags) \/ Len(remote.tags) < MaxTags
        /\ Exec("node tag add", auth, dryRun, FALSE, NoStdin, <<NodeName, tag>>,
                WithClient(auth, remote, LET c == getClient(auth).client IN
                    OneCall("Nodes.AddNodeTag",
                            Nodes(c, crdNodeClient_AddNodeTag(remote, <<>>, f, NodeName, tag),
                                  nodeClient_AddNodeTag(remote, <<>>, f, NodeName, tag)),
                            "failed to add tag", "Tag added")))

runNodeTagRemove ==
    \E auth \in AuthTypes, dryRun \in BOOLEAN, tag \in Tags :
      \E f \in Faults(auth, 2, 3) :
        Exec("node tag remove", auth, dryRun, FALSE, NoStdin, <<NodeName, tag>>,
             WithClient(auth, remote, LET c == getClient(auth).client IN
                OneCall("Nodes.RemoveNodeTag",
                        Nodes(c, crdNodeClient_RemoveNodeTag(remote, <<>>, f, NodeName, tag),
                              nodeClient_RemoveNodeTag(remote, <<>>, f, NodeName, tag)),
                        "failed to remove tag", "Tag removed")))

\* no --force flag and no question: standard input is not read
runNodeDiskRemove ==
    \E auth \in AuthTypes, dryRun \in BOOLEAN, in \in Unread, diskID \in DiskIDs :
      \E f \in Faults(auth, 1, 2) :
        Exec("node disk remove", auth, dryRun, FALSE, in, <<NodeName, diskID>>,
             WithClient(auth, remote, LET c == getClient(auth).client IN
                OneCall("Nodes.RemoveDisk",
                        Nodes(c, crdNodeClient_RemoveDisk(remote, <<>>, f, NodeName, diskID),
                              nodeClient_RemoveDisk(remote, <<>>, f, NodeName, diskID)),
                        "failed to remove disk", "Disk removed")))

runReplicaDelete ==
    \E auth \in AuthTypes, dryRun \in BOOLEAN, force \in BOOLEAN, in \in Answers,
       name \in ReplicaNames :
      \E f \in Faults(auth, 2, 2) :
        Exec("replica delete", auth, dryRun, force, in, <<name>>,
             IF ~force /\ ~Confirm(in) THEN Cancelled(remote, "Deletion cancelled")
             ELSE WithClient(auth, remote, LET c == getClient(auth).client IN
                    Bind(Replicas(c, crdReplicaClient_Get(remote, <<>>, f, name),
                                  replicaClient_Get(remote, <<>>, f, name)),
                         LAMBDA g :
                        IF g.err # ""
                        THEN OneCall("Replicas.Get", g, "failed to get replica details", "")
                        ELSE deleteReplica(c, g, f, name))))

\* no --force flag and no question: standard input is not read
runSnapshotDelete ==
    \E auth \in AuthTypes, dryRun \in BOOLEAN, in \in Unread,
       volumeName \in VolumeNames, snapshotName \in SnapshotNames :
      \E f \in Faults(auth, 1, 0) :
        Exec("snapshot delete", auth, dryRun, FALSE, in, <<volumeName, snapshotName>>,
             WithClient(auth, remote, LET c == getClient(auth).client IN
                OneCall("Snapshots.Delete",
                        Snapshots(c, crdSnapshotClient_Delete(remote, <<>>, f, volumeName, snapshotName),
                                  snapshotClient_Delete(remote, <<>>, f, volumeName, snapshotName)),
                        "failed to delete snapshot", "Snapshot deleted")))

\* failed listings are reported as issues; the handler always returns nil.
\* (Node conditions and disk space are not part of the remote state here.)
runTroubleshoot ==
    \E auth \in AuthTypes, dryRun \in BOOLEAN :
      \E f \in Faults(auth, 1, 4) :
        Exec("troubleshoot", auth, dryRun, FALSE, NoStdin, <<>>,
             WithClient(auth, remote, LET c == getClient(auth).client IN
                Bind(Volumes(c, crdVolumeClient_List(remote, <<>>, f),
                             volumeClient_List(remote, <<>>, f)), LAMBDA v :
                    IF v.err = "" THEN troubleshootReplicas(c, v, f)
                    ELSE troubleshootNodes(c, v, <<Call("Volumes.List", <<>>, v)>>,
                                           VolumeIssues(v, v), f))))

\* a failed settings read is a warning; a failed engine image listing is a
\* warning and the handler returns nil
runDiagnostics ==
    \E auth \in AuthTypes, dryRun \in BOOLEAN :
      \E f \in Faults(auth, 3, 0) :
        Exec("diagnostics", auth, dryRun, FALSE, NoStdin, <<>>,
             WithClient(auth, remote, LET c == getClient(auth).client IN
                Bind(Settings_Get(c, remote, <<>>, f, "current-longhorn-version"),
                     LAMBDA s1 :
                    IF s1.err = "panic" THEN Run(remote, <<>>, <<>>, "panic", "", "")
                    ELSE Bind(Settings_Get(c, s1.rem, s1.reqs, f, "default-engine-image"),
                              LAMBDA s2 : diagnoseEngineImages(c, s1, s2, f)))))

\* a program that uses the client package calls EnableDiskScheduling
\* (allowScheduling) or DisableDiskScheduling; no command of lhcli does
DiskScheduling ==
    \E auth \in AuthTypes, diskID \in DiskIDs, allowScheduling \in BOOLEAN :
      \E f \in Faults(auth, 3, 2) :
        Exec("", auth, FALSE, FALSE, NoStdin, <<NodeName, diskID>>,
             WithClient(auth, remote, LET c == getClient(auth).client IN
                OneCall(IF allowScheduling THEN "Nodes.EnableDiskScheduling"
                        ELSE "Nodes.DisableDiskScheduling",
                        Nodes(c, crdNodeClient_updateDiskScheduling(remote, <<>>, f, NodeName,
                                                                    diskID, allowScheduling),
                              nodeClient_updateDiskScheduling(remote, <<>>, f, NodeName,
                                                              diskID, allowScheduling)),
                        "failed", "done")))

Next ==
    \/ runVolumeList \/ runVolumeGet \/ runVolumeCreate \/ runVolumeUpdate
    \/ runVolumeDelete \/ runNodeList \/ runNodeGet \/ runNodeSchedulingEnable
    \/ runNodeSchedulingDisable \/ runNodeEvict \/ runNodeTagAdd \/ runNodeTagRemove
    \/ runNodeDiskRemove \/ runReplicaDelete \/ runSnapshotDelete \/ runTroubleshoot
    \/ runDiagnostics \/ DiskScheduling

Spec == Init /\ [][Next]_vars

----------------------------------------------------------------------------
(* Specification of the size strings: a size of the form <N>Gi is parsed, *)
(* the byte count is formatted, and the formatted string is parsed again, *)
(* all by one build of the program.                                       *)

\* the size strings <N>Gi tried: N up to MaxGi, the greatest N with
\* N * 1024^3 < 2^63 and the least N with N * 1024^3 >= 2^63
GiCounts ==
    {ToDecimal(<<n>>) : n \in 1..MaxGi}
        \cup {ToDecimal(Drop(MaxInt64.mag, 3)), ToDecimal(Drop(TwoTo63, 3))}

SizeStrings == {n \o <<"G", "i">> : n \in GiCounts}

NoParse == [err |-> FALSE, bytes |-> Zero64]

InitSize ==
    /\ remote \in {r \in InitialRemotes : Deviations(r) = 0}
    /\ pc = "size"
    /\ last = NoLast
    /\ tbl = NoTable
    /\ sz \in [stage : {"given"}, size : SizeStrings, ovf : OutOfRange,
               parsed : {NoParse}, text : {<<>>}, reparsed : {NoParse}]
    /\ js = NoJSON
    /\ cf = NoConfig
    /\ ts = NoReport
    /\ hp = NoCall
    /\ mon = NoMonitor
    /\ inv = NoInvocations
    /\ dk = NoDiskCall

SizeParse ==
    /\ pc = "size" /\ sz.stage = "given"
    /\ sz' = [sz EXCEPT !.stage = "parsed", !.parsed = ParseSize(sz.size, sz.ovf)]
    /\ UNCHANGED <<remote, pc, last, tbl, js, cf, ts, hp, mon, inv, dk>>

SizeFormat ==
    /\ pc = "size" /\ sz.stage = "parsed" /\ ~sz.parsed.err
    /\ sz' = [sz EXCEPT !.stage = "formatted", !.text = FormatSizeInGi(sz.parsed.bytes)]
    /\ UNCHANGED <<remote, pc, last, tbl, js, cf, ts, hp, mon, inv, dk>>

SizeReparse ==
    /\ pc = "size" /\ sz.stage = "formatted"
    /\ sz' = [sz EXCEPT !.stage = "reparsed", !.reparsed = ParseSize(sz.text, sz.ovf)]
    /\ UNCHANGED <<remote, pc, last, tbl, js, cf, ts, hp, mon, inv, dk>>

NextSize == SizeParse \/ SizeFormat \/ SizeReparse

SpecSize == InitSize /\ [][NextSize]_vars

\* the number N of a size string <N>Gi
GiCount(size) == FromDecimal(SubSeq(size, 1, Len(size) - 2), <<>>)

\* C9: ParseSize of <N>Gi returns N * 1024^3 bytes, and the string that
\* FormatSizeInGi makes of that byte count is parsed to the same byte count.
C9_SizeRoundTrip ==
    /\ sz # NoSize /\ sz.stage # "given"
            => /\ ~sz.parsed.err
               /\ sz.parsed.bytes = Int64(FALSE, Shift(GiCount(sz.size), 3))
    /\ sz # NoSize /\ sz.stage = "reparsed"
            => /\ ~sz.reparsed.err
               /\ sz.reparsed.bytes = sz.parsed.bytes

----------------------------------------------------------------------------
(* Specification of the table formatter: a table is made with its        *)
(* headers, rows are added, and the table is printed.                    *)

\* the cells tried: empty, short, long, and with a tab or a newline inside
Cells == {<<>>, <<"a">>, <<"a", "b", "c">>, <<"a", "\t", "b">>, <<"a", "\n">>}

\* the lists of at most MaxCols cells
CellLists == SeqUpTo(Cells, MaxCols)

InitTable ==
    /\ remote \in {r \in InitialRemotes : Deviations(r) = 0}
    /\ pc = "table"
    /\ last = NoLast
    /\ sz = NoSize
    /\ tbl \in [stage : {"made"}, headers : CellLists, rows : {<<>>}, out : {<<>>}]
    /\ js = NoJSON
    /\ cf = NoConfig
    /\ ts = NoReport
    /\ hp = NoCall
    /\ mon = NoMonitor
    /\ inv = NoInvocations
    /\ dk = NoDiskCall

TableAddRow ==
    /\ pc = "table" /\ tbl.stage = "made" /\ Len(tbl.rows) < MaxRows
    /\ \E row \in CellLists : tbl' = [tbl EXCEPT !.rows = AddRow(tbl.rows, row)]
    /\ UNCHANGED <<remote, pc, last, sz, js, cf, ts, hp, mon, inv, dk>>

TableFormatRows ==
    /\ pc = "table" /\ tbl.stage = "made"
    /\ tbl' = [tbl EXCEPT !.stage = "printed", !.out = TableFormat(tbl.headers, tbl.rows)]
    /\ UNCHANGED <<remote, pc, last, sz, js, cf, ts, hp, mon, inv, dk>>

NextTable == TableAddRow \/ TableFormatRows

SpecTable == InitTable /\ [][NextTable]_vars

\* a table was printed all of whose rows have as many cells as there are headers
PrintedRectangular ==
    /\ tbl # NoTable /\ tbl.stage = "printed"
    /\ \A i \in DOMAIN tbl.rows : Len(tbl.rows[i]) = Len(tbl.headers)

\* no cell of the table contains a character that ends a cell or a line
PlainCells ==
    \A line \in {tbl.headers} \cup Range(tbl.rows) :
        \A k \in DOMAIN line : Range(line[k]) \cap {"\t", "\n"} = {}

\* the header line, if there are headers, and the rows in the order added
TableLines == (IF Len(tbl.headers) > 0 THEN <<tbl.headers>> ELSE <<>>) \o tbl.rows

\* the widest k-th cell of the table
Widest(k) == Max({Len(TableLines[i][k]) : i \in DOMAIN TableLines})

\* the offset at which the k-th cell starts when every column before it is
\* as wide as its widest cell and 3 spaces
RECURSIVE Offset(_)
Offset(k) == IF k = 1 THEN 0 ELSE Offset(k - 1) + Widest(k - 1) + 3

\* line i of the output has the cells of line i of the table, each at the
\* offset of its column, spaces between them and nothing after the last
AlignedLine(i) ==
    /\ Len(tbl.out[i]) =
          IF TableLines[i] = <<>> THEN 0
          ELSE Offset(Len(TableLines[i])) + Len(TableLines[i][Len(TableLines[i])])
    /\ \A k \in DOMAIN TableLines[i] :
          /\ SubSeq(tbl.out[i], Offset(k) + 1, Offset(k) + Len(TableLines[i][k]))
                = TableLines[i][k]
          /\ k < Len(TableLines[i])
                => \A p \in (Offset(k) + Len(TableLines[i][k]) + 1) .. Offset(k + 1) :
                      tbl.out[i][p] = " "

Aligned ==
    /\ Len(tbl.out) = Len(TableLines)
    /\ \A i \in DOMAIN TableLines : i \in DOMAIN tbl.out /\ AlignedLine(i)

----------------------------------------------------------------------------
(* encoding/json, as the JSON formatter and the clients use it.  A Go type *)
(* is a descriptor; a Go value is a string (a sequence of characters), a   *)
(* boolean, an integer, a pointer [nil, to], a slice or a map [nil, elems] *)
(* or a struct (the sequence of its fields' values).                       *)

MaxSet == 1       \* fields of one struct value that differ from the zero value
MaxElems == 1     \* elements of a slice, keys of a map

GoString == [k |-> "string"]
GoBool == [k |-> "bool"]
GoInt == [k |-> "int"]
Ptr(t) == [k |-> "ptr", elem |-> t]
SliceOf(t) == [k |-> "slice", elem |-> t]
MapOf(t) == [k |-> "map", elem |-> t]
Struct(fields) == [k |-> "struct", fields |-> fields]

\* a struct field and its json tag
Field(name, t) == [name |-> name, type |-> t, omitempty |-> FALSE]
OmitEmpty(name, t) == [name |-> name, type |-> t, omitempty |-> TRUE]

Status ==
    Struct(<<Field("type", GoString), Field("status", GoString),
             Field("lastProbeTime", GoString), Field("lastTransitionTime", GoString),
             Field("reason", GoString), Field("message", GoString)>>)

Disk ==
    Struct(<<Field("path", GoString), Field("allowScheduling", GoBool),
             Field("evictionRequested", GoBool), Field("storageMaximum", GoInt),
             Field("storageAvailable", GoInt), Field("storageReserved", GoInt),
             Field("storageScheduled", GoInt), Field("diskUUID", GoString),
             Field("diskType", GoString), Field("conditions", MapOf(Status)),
             Field("scheduledReplica", MapOf(GoInt)), Field("tags", SliceOf(GoString))>>)

Node ==
    Struct(<<Field("name", GoString), OmitEmpty("namespace", GoString),
             Field("address", GoString), Field("allowScheduling", GoBool),
             Field("evictionRequested", GoBool), Field("conditions", MapOf(Status)),
             Field("disks", MapOf(Disk)), Field("region", GoString),
             Field("zone", GoString), Field("tags", SliceOf(GoString)),
             Field("engineManagerCPURequest", GoInt),
             Field("replicaManagerCPURequest", GoInt)>>)

DiskUpdate ==
    Struct(<<Field("path", GoString), OmitEmpty("allowScheduling", Ptr(GoBool)),
             OmitEmpty("evictionRequested", Ptr(GoBool)),
             OmitEmpty("storageReserved", GoInt), OmitEmpty("tags", SliceOf(GoString))>>)

NodeUpdate ==
    Struct(<<OmitEmpty("allowScheduling", Ptr(GoBool)),
             OmitEmpty("evictionRequested", Ptr(GoBool)),
             OmitEmpty("tags", SliceOf(GoString)),
             OmitEmpty("disks", MapOf(DiskUpdate))>>)

Replica ==
    Struct(<<Field("name", GoString), Field("nodeID", GoString),
             Field("diskID", GoString), OmitEmpty("diskPath", GoString),
             Field("dataPath", GoString), Field("mode", GoString),
             Field("failedAt", GoString), Field("running", GoBool),
             Field("specSize", GoString), Field("actualSize", GoString),
             Field("ip", GoString), Field("port", GoInt),
             Field("instanceManager", GoString), Field("image", GoString),
             Field("storageIP", GoString), Field("storagePort", GoInt),
             Field("dataEngine", GoString), Field("conditions", MapOf(Status))>>)

Volume ==
    Struct(<<Field("name", GoString), OmitEmpty("namespace", GoString),
             Field("size", GoString), OmitEmpty("actualSize", GoInt),
             Field("numberOfReplicas", GoInt), Field("state", GoString),
             Field("robustness", GoString), Field("frontend", GoString),
             Field("dataLocality", GoString), Field("accessMode", GoString),
             Field("migratable", GoBool), Field("encrypted", GoBool),
             Field("image", GoString), Field("lastBackup", GoString),
             Field("lastBackupAt", GoString), Field("created", GoString),
             Field("conditions", MapOf(Status)), Field("replicas", SliceOf(Replica)),
             OmitEmpty("labels", MapOf(GoString))>>)

SettingDefinition ==
    Struct(<<Field("description", GoString), Field("type", GoString),
             Field("required", GoBool), Field("readOnly", GoBool),
             Field("default", GoString), Field("options", SliceOf(GoString))>>)

Setting ==
    Struct(<<Field("name", GoString), Field("value", GoString),
             Field("default", GoString), Field("definition", SettingDefinition)>>)

DTOs == {"Node", "Volume", "Replica", "Setting", "NodeUpdate", "DiskUpdate"}

TypeOf(name) ==
    CASE name = "Node" -> Node
      [] name = "Volume" -> Volume
      [] name = "Replica" -> Replica
      [] name = "Setting" -> Setting
      [] name = "NodeUpdate" -> NodeUpdate
      [] name = "DiskUpdate" -> DiskUpdate

\* characters: a letter, the characters JSON escapes, a byte that is not
\* UTF-8, and U+FFFD, the replacement character
Quote == "\""
Backslash == "\\"
InvalidByte == "xFF"
RuneError == "uFFFD"
Strings == {<<>>, <<"a">>, <<"<", Quote, Backslash>>, <<InvalidByte>>}

\* the keys of a map, in sorted order
Keys == <<"k1", "k2", "k3">>
Member(key, val) == [key |-> key, val |-> val]

\* the zero value of a type
RECURSIVE ZeroValue(_)
ZeroValue(t) ==
    CASE t.k = "string" -> <<>>
      [] t.k = "bool" -> FALSE
      [] t.k = "int" -> 0
      [] t.k = "ptr" -> [nil |-> TRUE, to |-> ZeroValue(t.elem)]
      [] t.k \in {"slice", "map"} -> [nil |-> TRUE, elems |-> <<>>]
      [] t.k = "struct" -> [i \in 1..Len(t.fields) |-> ZeroValue(t.fields[i].type)]

\* the values of a type within the bounds
RECURSIVE Values(_)
RECURSIVE StructValues(_, _, _)
Values(t) ==
    CASE t.k = "string" -> Strings
      [] t.k = "bool" -> BOOLEAN
      [] t.k = "int" -> {0, 1}
      [] t.k = "ptr" -> {ZeroValue(t)} \cup {[nil |-> FALSE, to |-> v] : v \in Values(t.elem)}
      [] t.k = "slice" ->
            {ZeroValue(t)} \cup
            {[nil |-> FALSE, elems |-> e] : e \in SeqUpTo(Values(t.elem), MaxElems)}
      [] t.k = "map" ->
            {ZeroValue(t)} \cup
            {[nil |-> FALSE, elems |-> [i \in DOMAIN e |-> Member(Keys[i], e[i])]] :
                e \in SeqUpTo(Values(t.elem), MaxElems)}
      [] t.k = "struct" -> StructValues(t.fields, 1, MaxSet)
StructValues(fields, i, budget) ==
    IF i > Len(fields) THEN {<<>>}
    ELSE {<<ZeroValue(fields[i].type)>> \o rest : rest \in StructValues(fields, i + 1, budget)}
         \cup
         (IF budget = 0 THEN {}
          ELSE {<<v>> \o rest :
                   v \in Values(fields[i].type) \ {ZeroValue(fields[i].type)},
                   rest \in StructValues(fields, i + 1, budget - 1)})

\* a JSON document: null, a string (the text between its quotes), a
\* boolean, a number, an array, or an object (its members in order)
JSON(j, s, b, n, elems) == [j |-> j, s |-> s, b |-> b, n |-> n, elems |-> elems]
JNull == JSON("null", <<>>, FALSE, 0, <<>>)
JString(s) == JSON("string", s, FALSE, 0, <<>>)
JBool(b) == JSON("bool", <<>>, b, 0, <<>>)
JNumber(n) == JSON("number", <<>>, FALSE, n, <<>>)
JArray(elems) == JSON("array", <<>>, FALSE, 0, elems)
JObject(members) == JSON("object", <<>>, FALSE, 0, members)

\* encoding/json writes a string with HTML escaping on: the quote and the
\* backslash behind a backslash, < as the six characters backslash u 0 0 3 c,
\* and each byte that is not UTF-8 as backslash u f f f d
EscapeRune(c) ==
    CASE c = Quote -> <<Backslash, Quote>>
      [] c = Backslash -> <<Backslash, Backslash>>
      [] c = "<" -> <<Backslash, "u", "0", "0", "3", "c">>
      [] c = InvalidByte -> <<Backslash, "u", "f", "f", "f", "d">>
      [] OTHER -> <<c>>
RECURSIVE appendString(_)
appendString(s) ==
    IF s = <<>> THEN <<>> ELSE EscapeRune(Head(s)) \o appendString(Tail(s))

\* encoding/json reads a string: \uXXXX is the character of that code, a
\* backslash before any other character stands for that character
getu4(hex) ==
    CASE hex = <<"0", "0", "3", "c">> -> "<"
      [] hex = <<"f", "f", "f", "d">> -> RuneError
RECURSIVE unquote(_)
unquote(text) ==
    IF text = <<>> THEN <<>>
    ELSE IF Head(text) = InvalidByte THEN <<RuneError>> \o unquote(Tail(text))
    ELSE IF Head(text) # Backslash THEN <<Head(text)>> \o unquote(Tail(text))
    ELSE IF text[2] = "u"
         THEN <<getu4(SubSeq(text, 3, 6))>> \o unquote(SubSeq(text, 7, Len(text)))
    ELSE <<text[2]>> \o unquote(SubSeq(text, 3, Len(text)))

\* what omitempty leaves out: false, 0, a nil pointer, and a string, slice
\* or map of length 0, nil or not
isEmptyValue(t, v) ==
    CASE t.k = "string" -> Len(v) = 0
      [] t.k = "bool" -> ~v
      [] t.k = "int" -> v = 0
      [] t.k = "ptr" -> v.nil
      [] t.k \in {"slice", "map"} -> Len(v.elems) = 0
      [] t.k = "struct" -> FALSE

\* json.Marshal: the fields of a struct in their order under their tags,
\* the keys of a map sorted, nil as null
RECURSIVE Marshal(_, _)
RECURSIVE MarshalFields(_, _, _)
Marshal(t, v) ==
    CASE t.k = "string" -> JString(appendString(v))
      [] t.k = "bool" -> JBool(v)
      [] t.k = "int" -> JNumber(v)
      [] t.k = "ptr" -> IF v.nil THEN JNull ELSE Marshal(t.elem, v.to)
      [] t.k = "slice" ->
            IF v.nil THEN JNull
            ELSE JArray([i \in DOMAIN v.elems |-> Marshal(t.elem, v.elems[i])])
      [] t.k = "map" ->
            IF v.nil THEN JNull
            ELSE JObject([i \in DOMAIN v.elems |->
                            Member(v.elems[i].key, Marshal(t.elem, v.elems[i].val))])
      [] t.k = "struct" -> JObject(MarshalFields(t.fields, v, 1))
MarshalFields(fields, v, i) ==
    IF i > Len(fields) THEN <<>>
    ELSE (IF fields[i].omitempty /\ isEmptyValue(fields[i].type, v[i]) THEN <<>>
          ELSE <<Member(fields[i].name, Marshal(fields[i].type, v[i]))>>)
         \o MarshalFields(fields, v, i + 1)

HasMember(doc, key) == \E i \in DOMAIN doc.elems : doc.elems[i].key = key
MemberOf(doc, key) ==
    doc.elems[CHOOSE i \in DOMAIN doc.elems : doc.elems[i].key = key].val

\* json.Unmarshal into a value: null makes a pointer, slice or map nil and
\* leaves anything else as it is, a member the document lacks leaves its
\* field as it is.  The documents decoded are those Marshal wrote for the
\* same type, so no member has the wrong kind.
RECURSIVE Unmarshal(_, _, _)
Unmarshal(t, doc, into) ==
    IF doc.j = "null"
    THEN IF t.k \in {"ptr", "slice", "map"} THEN ZeroValue(t) ELSE into
    ELSE CASE t.k = "string" -> unquote(doc.s)
           [] t.k = "bool" -> doc.b
           [] t.k = "int" -> doc.n
           [] t.k = "ptr" ->
                 [nil |-> FALSE,
                  to |-> Unmarshal(t.elem, doc, IF into.nil THEN ZeroValue(t.elem) ELSE into.to)]
           [] t.k = "slice" ->
                 [nil |-> FALSE,
                  elems |-> [i \in DOMAIN doc.elems |->
                               Unmarshal(t.elem, doc.elems[i], ZeroValue(t.elem))]]
           [] t.k = "map" ->
                 [nil |-> FALSE,
                  elems |-> [i \in DOMAIN doc.elems |->
                               Member(doc.elems[i].key,
                                      Unmarshal(t.elem, doc.elems[i].val, ZeroValue(t.elem)))]]
           [] t.k = "struct" ->
                 [i \in 1..Len(t.fields) |->
                    IF HasMember(doc, t.fields[i].name)
                    THEN Unmarshal(t.fields[i].type, MemberOf(doc, t.fields[i].name), into[i])
                    ELSE into[i]]

----------------------------------------------------------------------------
(* Specification of the JSON formatter: a value of one of the DTO types is *)
(* written by JSONFormatter.Format and the output is decoded into a new    *)
(* value of the same type, as TestJSONFormatter does.                      *)

InitJSON ==
    /\ remote \in {r \in InitialRemotes : Deviations(r) = 0}
    /\ pc = "json"
    /\ last = NoLast
    /\ sz = NoSize
    /\ tbl = NoTable
    /\ \E name \in DTOs :
         js \in [stage : {"given"}, type : {name}, value : Values(TypeOf(name)),
                 doc : {JNull}, result : {ZeroValue(TypeOf(name))}]
    /\ cf = NoConfig
    /\ ts = NoReport
    /\ hp = NoCall
    /\ mon = NoMonitor
    /\ inv = NoInvocations
    /\ dk = NoDiskCall

\* JSONFormatter.Format: json.NewEncoder(w).Encode(data)
JSONFormat ==
    /\ pc = "json" /\ js.stage = "given"
    /\ js' = [js EXCEPT !.stage = "encoded", !.doc = Marshal(TypeOf(js.type), js.value)]
    /\ UNCHANGED <<remote, pc, last, sz, tbl, cf, ts, hp, mon, inv, dk>>

\* json.Unmarshal(buf.Bytes(), &result) with result the zero value
JSONUnmarshal ==
    /\ pc = "json" /\ js.stage = "encoded"
    /\ js' = [js EXCEPT !.stage = "decoded",
                        !.result = Unmarshal(TypeOf(js.type), js.doc, js.result)]
    /\ UNCHANGED <<remote, pc, last, sz, tbl, cf, ts, hp, mon, inv, dk>>

NextJSON ==
    \/ JSONFormat
    \/ JSONUnmarshal

SpecJSON == InitJSON /\ [][NextJSON]_vars

\* C11: a DTO value written by the JSON formatter and decoded into the same
\* type comes back equal to the original in every field
C11_JSONFidelity ==
    pc = "json" /\ js.stage = "decoded" => js.result = js.value

----------------------------------------------------------------------------
(* pkg/config and the global flags: the contexts of the configuration file *)
(* in file order, the --context and --namespace flags, and the namespace   *)
(* getClient hands to the client.                                          *)

MaxContexts == 2

ContextNames == {"", "prod", "dev"}
ContextNamespaces == {"", "storage"}
Contexts == [name : ContextNames, namespace : ContextNamespaces]
Configs == [contexts : SeqUpTo(Contexts, MaxContexts), currentContext : ContextNames]
NoContext == [name |-> "", namespace |-> ""]

\* the loop of GetContext over c.Contexts from position i
RECURSIVE rangeContexts(_, _, _)
rangeContexts(contexts, i, name) ==
    IF i > Len(contexts) THEN [err |-> TRUE, ctx |-> NoContext]
    ELSE IF contexts[i].name = name THEN [err |-> FALSE, ctx |-> contexts[i]]
    ELSE rangeContexts(contexts, i + 1, name)

\* GetContext with the loop running from the last context to the first
RECURSIVE rangeContextsBack(_, _, _)
rangeContextsBack(contexts, i, name) ==
    IF i < 1 THEN [err |-> TRUE, ctx |-> NoContext]
    ELSE IF contexts[i].name = name THEN [err |-> FALSE, ctx |-> contexts[i]]
    ELSE rangeContextsBack(contexts, i - 1, name)
GetContext_LastMatch(c, name) ==
    rangeContextsBack(c.contexts, Len(c.contexts),
                      IF name = "" THEN c.currentContext ELSE name)

\* Config.GetContext
GetContext(c, name) ==
    rangeContexts(c.contexts, 1, IF name = "" THEN c.currentContext ELSE name)

\* the --namespace flag as init declares it: the variable holds the flag's
\* default unless the flag is on the command line
DefaultNamespace == "longhorn-system"
FlagNamespaces == {"", "other"}
namespaceFlag(passed, value) == IF passed THEN value ELSE DefaultNamespace

\* getClient, from loading the configuration to the namespace it gives the
\* client
getClientNamespace(c, context, namespace) ==
    LET got == GetContext(c, context) IN
    IF got.err THEN [err |-> TRUE, ctx |-> NoContext, ns |-> ""]
    ELSE [err |-> FALSE, ctx |-> got.ctx,
          ns |-> IF namespace # "" THEN namespace
                 ELSE IF got.ctx.namespace # "" THEN got.ctx.namespace
                 ELSE "longhorn-system"]

----------------------------------------------------------------------------
(* Specification of the configuration: GetContext is called with a name,   *)
(* and getClient runs with the flags of a command line.                    *)

NoSelection == [err |-> FALSE, ctx |-> NoContext, ns |-> ""]

InitConfig ==
    /\ remote \in {r \in InitialRemotes : Deviations(r) = 0}
    /\ pc = "config"
    /\ last = NoLast
    /\ sz = NoSize
    /\ tbl = NoTable
    /\ js = NoJSON
    /\ cf \in [stage : {"given"}, config : Configs, context : ContextNames,
               nsPassed : BOOLEAN, nsValue : FlagNamespaces, got : {NoSelection}]
    /\ ts = NoReport
    /\ hp = NoCall
    /\ mon = NoMonitor
    /\ inv = NoInvocations
    /\ dk = NoDiskCall

\* cfg.GetContext(context)
ConfigGetContext ==
    /\ pc = "config" /\ cf.stage = "given"
    /\ LET got == GetContext(cf.config, cf.context) IN
         cf' = [cf EXCEPT !.stage = "selected",
                          !.got = [err |-> got.err, ctx |-> got.ctx, ns |-> ""]]
    /\ UNCHANGED <<remote, pc, last, sz, tbl, js, ts, hp, mon, inv, dk>>

\* getClient up to the construction of the client
ConfigGetClient ==
    /\ pc = "config" /\ cf.stage = "given"
    /\ cf' = [cf EXCEPT !.stage = "resolved",
                        !.got = getClientNamespace(cf.config, cf.context,
                                                   namespaceFlag(cf.nsPassed, cf.nsValue))]
    /\ UNCHANGED <<remote, pc, last, sz, tbl, js, ts, hp, mon, inv, dk>>

NextConfig ==
    \/ ConfigGetContext
    \/ ConfigGetClient

SpecConfig == InitConfig /\ [][NextConfig]_vars

\* C12: without --namespace on the command line the client gets the
\* namespace of the selected context, and longhorn-system only when that
\* context has none
C12_NamespaceFromContext ==
    pc = "config" /\ cf.stage = "resolved" /\ ~cf.got.err /\ ~cf.nsPassed =>
        cf.got.ns = (IF cf.got.ctx.namespace # "" THEN cf.got.ctx.namespace
                     ELSE "longhorn-system")

\* the name GetContext looks for and the positions that carry it
Wanted == IF cf.context = "" THEN cf.config.currentContext ELSE cf.context
Named == {i \in DOMAIN cf.config.contexts : cf.config.contexts[i].name = Wanted}

\* C13: GetContext returns the first context in file order that has the
\* wanted name (the given one, or current-context when none is given), and
\* an error and no context when no context has it
C13_GetContextFirstByName ==
    pc = "config" /\ cf.stage = "selected" =>
        IF Named = {}
        THEN cf.got.err /\ cf.got.ctx = NoContext
        ELSE /\ ~cf.got.err
             /\ cf.got.ctx = cf.config.contexts[CHOOSE i \in Named : \A j \in Named : i <= j]
             /\ cf.got.ctx.name = Wanted

\* GetContext has picked the first of two contexts of the same name through
\* current-context
C13_FirstOfTwoSelected ==
    /\ pc = "config" /\ cf.stage = "selected"
    /\ cf.context = "" /\ Wanted = "prod"
    /\ Cardinality(Named) = 2
    /\ cf.config.contexts[1].namespace # cf.config.contexts[2].namespace
    /\ cf.got.ctx = cf.config.contexts[1]

----------------------------------------------------------------------------
(* The checks of troubleshoot on what the three listings returned.  The    *)
(* sizes of a disk are int64: the product StorageAvailable*10 wraps.       *)

MaxListedReplicas == 2
MaxListedNodes == 1
MaxListedDisks == 1

\* whether magnitude a is below magnitude b (both without leading zeros)
RECURSIVE MagLess(_, _)
MagLess(a, b) ==
    IF Len(a) # Len(b) THEN Len(a) < Len(b)
    ELSE IF a = <<>> THEN FALSE
    ELSE IF a[Len(a)] # b[Len(b)] THEN a[Len(a)] < b[Len(b)]
    ELSE MagLess(SubSeq(a, 1, Len(a) - 1), SubSeq(b, 1, Len(b) - 1))

\* a < b on int64
Less64(a, b) ==
    IF a.neg # b.neg THEN a.neg
    ELSE IF a.neg THEN MagLess(b.mag, a.mag) ELSE MagLess(a.mag, b.mag)

\* the low 64 bits of a magnitude: six digits of ten bits and four bits
Low64(mag) ==
    [i \in 1..7 |-> IF i > Len(mag) THEN 0 ELSE IF i = 7 THEN mag[i] % 16 ELSE mag[i]]

\* a * k on int64 for a >= 0 and a small k > 0: the low 64 bits of the
\* product, read in two's complement
Mul64(a, k) ==
    LET low == Low64(MulAdd(a.mag, k, 0)) IN
    IF low[7] < 8 THEN Int64(FALSE, Norm(low))
    ELSE Int64(TRUE, Norm(MulAdd([i \in 1..7 |-> IF i = 7 THEN 15 - low[i]
                                                 ELSE (Kibi - 1) - low[i]], 1, 1)))

\* getNodeStatus: the status of the condition Ready decides
getNodeStatus(node) ==
    IF node.ready # "absent"
    THEN (IF node.ready = "True" THEN "Ready" ELSE "NotReady")
    ELSE "Unknown"

Issue(text, name) == [text |-> text, name |-> name]

\* the loop over the replicas: a replica whose volume was not listed
RECURSIVE orphanedReplicas(_, _, _)
orphanedReplicas(replicas, i, volMap) ==
    IF i > Len(replicas) THEN <<>>
    ELSE (IF replicas[i].VolumeName \notin volMap
          THEN <<Issue("orphaned replica", replicas[i].Name)>> ELSE <<>>)
         \o orphanedReplicas(replicas, i + 1, volMap)

\* the loop over the disks of a node, in the order the map yields them
RECURSIVE lowDisks(_, _)
lowDisks(disks, i) ==
    IF i > Len(disks) THEN <<>>
    ELSE (IF Less64(Zero64, disks[i].StorageMaximum)
             /\ Less64(Mul64(disks[i].StorageAvailable, 10), disks[i].StorageMaximum)
          THEN <<Issue("low disk space", disks[i].ID)>> ELSE <<>>)
         \o lowDisks(disks, i + 1)

\* the loop over the nodes
RECURSIVE nodeIssues(_, _)
nodeIssues(nodes, i) ==
    IF i > Len(nodes) THEN <<>>
    ELSE (IF getNodeStatus(nodes[i]) # "Ready"
          THEN <<Issue("node is not ready", nodes[i].Name)>> ELSE <<>>)
         \o (IF ~nodes[i].AllowScheduling
             THEN <<Issue("node scheduling disabled", nodes[i].Name)>> ELSE <<>>)
         \o lowDisks(nodes[i].Disks, 1)
         \o nodeIssues(nodes, i + 1)

\* the issues runTroubleshoot collects; the replicas are listed only when
\* the volumes were
troubleshootIssues(volumes, replicas, nodes) ==
    (IF ~volumes.err
     THEN (IF ~replicas.err
           THEN orphanedReplicas(replicas.items, 1, Range(volumes.items))
           ELSE <<Issue("failed to list replicas", "")>>)
     ELSE <<Issue("failed to list volumes", "")>>)
    \o (IF ~nodes.err THEN nodeIssues(nodes.items, 1)
        ELSE <<Issue("failed to list nodes", "")>>)

\* what runTroubleshoot prints
troubleshootOutput(issues) ==
    IF Len(issues) = 0 THEN <<"No issues detected">>
    ELSE <<"Potential issues:">> \o issues

----------------------------------------------------------------------------
(* Specification of troubleshoot's report: the three listings return what  *)
(* they return, and the handler prints its report.                         *)

ListedVolumeNames == {"vol1", "vol2"}
ListedVolumes == {<<>>, <<"vol1">>}
ListedReplicas ==
    {[i \in DOMAIN s |-> [Name |-> IF i = 1 THEN "rep1" ELSE IF i = 2 THEN "rep2" ELSE "rep3",
                          VolumeName |-> s[i]]] :
        s \in SeqUpTo(ListedVolumeNames, MaxListedReplicas)}

\* sizes in bytes: 2^60 is 1 EiB
Bytes(n) == Int64(FALSE, Norm(<<n>>))
TwoTo60 == Int64(FALSE, Shift(<<1>>, 6))
DiskSizes ==
    {[StorageMaximum |-> Bytes(0), StorageAvailable |-> Bytes(0)],
     [StorageMaximum |-> Bytes(100), StorageAvailable |-> Bytes(100)],
     [StorageMaximum |-> Bytes(100), StorageAvailable |-> Bytes(10)],
     [StorageMaximum |-> Bytes(100), StorageAvailable |-> Bytes(9)],
     [StorageMaximum |-> TwoTo60, StorageAvailable |-> TwoTo60]}
ListedDisks ==
    {[i \in DOMAIN s |-> [ID |-> IF i = 1 THEN "disk1" ELSE IF i = 2 THEN "disk2" ELSE "disk3",
                          StorageMaximum |-> s[i].StorageMaximum,
                          StorageAvailable |-> s[i].StorageAvailable]] :
        s \in SeqUpTo(DiskSizes, MaxListedDisks)}
ListedNodes ==
    {[i \in DOMAIN s |-> [Name |-> IF i = 1 THEN "n1" ELSE IF i = 2 THEN "n2" ELSE "n3",
                          ready |-> s[i].ready,
                          AllowScheduling |-> s[i].AllowScheduling,
                          Disks |-> s[i].Disks]] :
        s \in SeqUpTo([ready : {"True", "False", "absent"}, AllowScheduling : BOOLEAN,
                       Disks : ListedDisks], MaxListedNodes)}

ListingResults(items) == [err : {FALSE}, items : items] \cup [err : {TRUE}, items : {<<>>}]

InitTroubleshoot ==
    /\ remote \in {r \in InitialRemotes : Deviations(r) = 0}
    /\ pc = "troubleshoot"
    /\ last = NoLast
    /\ sz = NoSize
    /\ tbl = NoTable
    /\ js = NoJSON
    /\ cf = NoConfig
    /\ ts \in [stage : {"listed"}, volumes : ListingResults(ListedVolumes),
               replicas : ListingResults(ListedReplicas),
               nodes : ListingResults(ListedNodes),
               out : {<<>>}]
    /\ hp = NoCall
    /\ mon = NoMonitor
    /\ inv = NoInvocations
    /\ dk = NoDiskCall

\* runTroubleshoot on the results of its listings
TroubleshootReport ==
    /\ pc = "troubleshoot" /\ ts.stage = "listed"
    /\ ts' = [ts EXCEPT !.stage = "printed",
                        !.out = troubleshootOutput(
                                    troubleshootIssues(ts.volumes, ts.replicas, ts.nodes))]
    /\ UNCHANGED <<remote, pc, last, sz, tbl, js, cf, hp, mon, inv, dk>>

NextTroubleshoot == TroubleshootReport

SpecTroubleshoot == InitTroubleshoot /\ [][NextTroubleshoot]_vars

\* the replicas whose volume is not among the listed ones
Orphans ==
    {i \in DOMAIN ts.replicas.items :
        ts.replicas.items[i].VolumeName \notin Range(ts.volumes.items)}
NotReadyNodes ==
    {i \in DOMAIN ts.nodes.items : ts.nodes.items[i].ready # "True"}
UnschedulableNodes ==
    {i \in DOMAIN ts.nodes.items : ~ts.nodes.items[i].AllowScheduling}
\* the disks with a StorageMaximum above 0 and less than a tenth of it
\* available, in unbounded arithmetic
LowDisks ==
    {<<i, j>> \in (DOMAIN ts.nodes.items) \X (1..MaxListedDisks + 1) :
        /\ j \in DOMAIN ts.nodes.items[i].Disks
        /\ LET d == ts.nodes.items[i].Disks[j] IN
             /\ d.StorageMaximum.mag # <<>>
             /\ MagLess(MulAdd(d.StorageAvailable.mag, 10, 0), d.StorageMaximum.mag)}
Violations ==
    (IF ts.volumes.err THEN 1
     ELSE IF ts.replicas.err THEN 1 ELSE Cardinality(Orphans))
    + (IF ts.nodes.err THEN 1
       ELSE Cardinality(NotReadyNodes) + Cardinality(UnschedulableNodes)
            + Cardinality(LowDisks))

\* C14: troubleshoot prints "No issues detected" exactly when the three
\* listings succeeded, no replica is orphaned, every node is Ready and
\* schedulable and no disk is below a tenth of its capacity; otherwise it
\* prints one issue line for each violation
C14_TroubleshootReport ==
    pc = "troubleshoot" /\ ts.stage = "printed" =>
        /\ ts.out = <<"No issues detected">>
             <=> /\ ~ts.volumes.err /\ ~ts.replicas.err /\ ~ts.nodes.err
                 /\ Violations = 0
        /\ ts.out # <<"No issues detected">> => Len(ts.out) = 1 + Violations

----------------------------------------------------------------------------
(* pkg/utils and pkg/formatter helpers.  A Go string is a sequence of      *)
(* bytes; a character outside ASCII takes several of them.                 *)

MaxChars == 4     \* characters of a string given to TruncateString
MaxLen == 6       \* greatest length given to TruncateString
MaxDays == 2      \* days of a duration given to FormatDuration

\* the UTF-8 encoding of a character: e with an acute accent is U+00E9, two
\* bytes
EncodeRune(c) == IF c = "e-acute" THEN <<"xC3", "xA9">> ELSE <<c>>
RECURSIVE UTF8(_)
UTF8(chars) == IF chars = <<>> THEN <<>> ELSE EncodeRune(Head(chars)) \o UTF8(Tail(chars))

\* TruncateString: len and the slice expression count bytes
TruncateString(s, maxLen) ==
    IF Len(s) <= maxLen THEN s
    ELSE IF maxLen <= 3 THEN SubSeq(s, 1, maxLen)
    ELSE SubSeq(s, 1, maxLen - 3) \o <<".", ".", ".">>

\* fmt.Sprintf("%d" + unit, n) for n >= 0
SprintfUnit(n, unit) == ToDecimal(MulAdd(<<>>, 1, n)) \o <<unit>>

\* FormatDuration with the hours not reduced modulo 24
FormatDuration_AllHours(d) ==
    IF d = 0 THEN <<"0", "s">>
    ELSE LET days == d \div 86400
             hours == d \div 3600
             minutes == (d \div 60) % 60
             seconds == d % 60
             p1 == IF days > 0 THEN SprintfUnit(days, "d") ELSE <<>>
             p2 == p1 \o (IF hours > 0 THEN SprintfUnit(hours, "h") ELSE <<>>)
             p3 == p2 \o (IF minutes > 0 THEN SprintfUnit(minutes, "m") ELSE <<>>)
         IN p3 \o (IF seconds > 0 \/ p3 = <<>> THEN SprintfUnit(seconds, "s") ELSE <<>>)

\* FormatDuration of a duration of d whole seconds, d >= 0.  d.Hours(),
\* d.Minutes() and d.Seconds() are float64; on whole seconds their integer
\* parts are exact, and int is 64 bits wide.
FormatDuration(d) ==
    IF d = 0 THEN <<"0", "s">>
    ELSE LET days == (d \div 3600) \div 24
             hours == (d \div 3600) % 24
             minutes == (d \div 60) % 60
             seconds == d % 60
             p1 == IF days > 0 THEN SprintfUnit(days, "d") ELSE <<>>
             p2 == p1 \o (IF hours > 0 THEN SprintfUnit(hours, "h") ELSE <<>>)
             p3 == p2 \o (IF minutes > 0 THEN SprintfUnit(minutes, "m") ELSE <<>>)
         IN p3 \o (IF seconds > 0 \/ p3 = <<>> THEN SprintfUnit(seconds, "s") ELSE <<>>)

\* strings.Contains
Contains(s, sub) ==
    \E i \in 0..(Len(s) - Len(sub)) : SubSeq(s, i + 1, i + Len(sub)) = sub

\* the escape sequences of FormatStatus, each as one element of the output
colorReset == "ESC[0m"
colorRed == "ESC[31m"
colorGreen == "ESC[32m"
colorYellow == "ESC[33m"
colorGray == "ESC[90m"

GreenWords == {<<"r", "e", "a", "d", "y">>, <<"r", "u", "n", "n", "i", "n", "g">>, <<"a", "c", "t", "i", "v", "e">>, <<"h", "e", "a", "l", "t", "h", "y">>}
RedWords == {<<"e", "r", "r", "o", "r">>, <<"f", "a", "i", "l", "e", "d">>, <<"u", "n", "h", "e", "a", "l", "t", "h", "y">>}
YellowWords == {<<"p", "e", "n", "d", "i", "n", "g">>, <<"c", "r", "e", "a", "t", "i", "n", "g">>, <<"u", "p", "d", "a", "t", "i", "n", "g">>}
GrayWords == {<<"u", "n", "k", "n", "o", "w", "n">>, <<"t", "e", "r", "m", "i", "n", "a", "t", "i", "n", "g">>}

\* FormatStatus: the first case of the switch that matches decides
FormatStatus(status, useColor) ==
    IF ~useColor THEN status
    ELSE LET statusLower == ToLower(status) IN
         IF \E w \in GreenWords : Contains(statusLower, w)
         THEN <<colorGreen>> \o status \o <<colorReset>>
         ELSE IF \E w \in RedWords : Contains(statusLower, w)
         THEN <<colorRed>> \o status \o <<colorReset>>
         ELSE IF \E w \in YellowWords : Contains(statusLower, w)
         THEN <<colorYellow>> \o status \o <<colorReset>>
         ELSE IF \E w \in GrayWords : Contains(statusLower, w)
         THEN <<colorGray>> \o status \o <<colorReset>>
         ELSE status

----------------------------------------------------------------------------
(* Specification of the helpers: each is called once on an argument.       *)

Characters == {"h", "e-acute"}
Durations ==
    {days * 86400 + h * 3600 + m * 60 + s :
        days \in 0..MaxDays, h \in {0, 1, 23}, m \in {0, 1, 59}, s \in {0, 1, 59}}
Statuses ==
    {<<"R", "e", "a", "d", "y">>, <<"E", "r", "r", "o", "r">>, <<"P", "e", "n", "d", "i", "n", "g">>, <<"U", "n", "k", "n", "o", "w", "n">>,
     <<"U", "n", "h", "e", "a", "l", "t", "h", "y">>, <<"N", "o", "t", "R", "e", "a", "d", "y">>, <<"B", "o", "u", "n", "d">>}

HelperCall(fn, s, n, flag) ==
    [stage |-> "called", fn |-> fn, s |-> s, n |-> n, flag |-> flag, out |-> <<>>]

InitHelpers ==
    /\ remote \in {r \in InitialRemotes : Deviations(r) = 0}
    /\ pc = "helpers"
    /\ last = NoLast
    /\ sz = NoSize
    /\ tbl = NoTable
    /\ js = NoJSON
    /\ cf = NoConfig
    /\ ts = NoReport
    /\ \/ \E s \in SeqUpTo(Characters, MaxChars), n \in 0..MaxLen :
            hp = HelperCall("TruncateString", s, n, FALSE)
       \/ \E d \in Durations : hp = HelperCall("FormatDuration", <<>>, d, FALSE)
       \/ \E s \in Statuses, useColor \in BOOLEAN :
            hp = HelperCall("FormatStatus", s, 0, useColor)
    /\ mon = NoMonitor
    /\ inv = NoInvocations
    /\ dk = NoDiskCall

CallTruncateString ==
    /\ pc = "helpers" /\ hp.stage = "called" /\ hp.fn = "TruncateString"
    /\ hp' = [hp EXCEPT !.stage = "returned", !.out = TruncateString(UTF8(hp.s), hp.n)]
    /\ UNCHANGED <<remote, pc, last, sz, tbl, js, cf, ts, mon, inv, dk>>

CallFormatDuration ==
    /\ pc = "helpers" /\ hp.stage = "called" /\ hp.fn = "FormatDuration"
    /\ hp' = [hp EXCEPT !.stage = "returned", !.out = FormatDuration(hp.n)]
    /\ UNCHANGED <<remote, pc, last, sz, tbl, js, cf, ts, mon, inv, dk>>

CallFormatStatus ==
    /\ pc = "helpers" /\ hp.stage = "called" /\ hp.fn = "FormatStatus"
    /\ hp' = [hp EXCEPT !.stage = "returned", !.out = FormatStatus(hp.s, hp.flag)]
    /\ UNCHANGED <<remote, pc, last, sz, tbl, js, cf, ts, mon, inv, dk>>

NextHelpers ==
    \/ CallTruncateString
    \/ CallFormatDuration
    \/ CallFormatStatus

SpecHelpers == InitHelpers /\ [][NextHelpers]_vars

Returned(fn) == pc = "helpers" /\ hp.stage = "returned" /\ hp.fn = fn

\* the first k characters of a string
FirstChars(chars, k) == SubSeq(chars, 1, IF k < Len(chars) THEN k ELSE Len(chars))

\* C15: TruncateString(s, n) returns s when len(s) <= n, the first n
\* characters of s when n <= 3, otherwise the first n-3 characters of s and
\* "..."; when s is longer than n the result is not longer than n
C15_TruncateString ==
    Returned("TruncateString") =>
        /\ hp.out = IF Len(UTF8(hp.s)) <= hp.n THEN UTF8(hp.s)
                    ELSE IF hp.n <= 3 THEN UTF8(FirstChars(hp.s, hp.n))
                    ELSE UTF8(FirstChars(hp.s, hp.n - 3)) \o <<".", ".", ".">>
        /\ Len(UTF8(hp.s)) > hp.n => Len(hp.out) <= hp.n

\* the components "<N><unit>" of a formatted duration, in order; a text
\* that is not of this form yields a component with n = -1
RECURSIVE DurationParts(_)
DurationParts(text) ==
    IF text = <<>> THEN <<>>
    ELSE LET ds == DigitPrefix(text) IN
         IF ds = <<>> \/ Len(ds) = Len(text) \/ (Head(ds) = "0" /\ Len(ds) > 1)
         THEN <<[n |-> -1, unit |-> "?"]>>
         ELSE <<[n |-> Low3(FromDecimal(ds, <<>>)), unit |-> text[Len(ds) + 1]]>>
              \o DurationParts(Drop(text, Len(ds) + 1))

Units == <<"d", "h", "m", "s">>
UnitSeconds == <<86400, 3600, 60, 1>>
UnitLimit == <<0, 24, 60, 60>>
UnitIndex(u) == CHOOSE i \in DOMAIN Units : Units[i] = u

RECURSIVE PartsSeconds(_)
PartsSeconds(parts) ==
    IF parts = <<>> THEN 0
    ELSE Head(parts).n * UnitSeconds[UnitIndex(Head(parts).unit)] + PartsSeconds(Tail(parts))

\* C16: FormatDuration of d whole seconds is "0s" for 0 and otherwise the
\* non-zero components among days, hours, minutes and seconds, in this
\* order, with hours below 24, minutes and seconds below 60, adding up to d
C16_FormatDuration ==
    Returned("FormatDuration") =>
        IF hp.n = 0 THEN hp.out = <<"0", "s">>
        ELSE LET parts == DurationParts(hp.out) IN
             /\ parts # <<>>
             /\ \A i \in DOMAIN parts :
                  /\ parts[i].unit \in Range(Units)
                  /\ parts[i].n > 0
                  /\ parts[i].unit # "d" => parts[i].n < UnitLimit[UnitIndex(parts[i].unit)]
                  /\ \A j \in DOMAIN parts :
                       i < j => UnitIndex(parts[i].unit) < UnitIndex(parts[j].unit)
             /\ PartsSeconds(parts) = hp.n

\* FormatDuration has returned all four components for 1 day, 1 hour,
\* 1 minute and 1 second
C16_AllFourComponents ==
    /\ Returned("FormatDuration")
    /\ hp.n = 86400 + 3600 + 60 + 1
    /\ hp.out = <<"1", "d", "1", "h", "1", "m", "1", "s">>

Classes ==
    {[colour |-> colorGreen, words |-> GreenWords], [colour |-> colorRed, words |-> RedWords],
     [colour |-> colorYellow, words |-> YellowWords], [colour |-> colorGray, words |-> GrayWords]}

\* C17: without colour FormatStatus returns the status; with colour the
\* status is wrapped in the colour of its class and the reset code: green
\* for ready, running, active, healthy; red for error, failed, unhealthy;
\* yellow for pending, creating, updating; gray for unknown, terminating
C17_FormatStatus ==
    Returned("FormatStatus") =>
        IF ~hp.flag THEN hp.out = hp.s
        ELSE \A class \in Classes :
                (\E w \in class.words : Contains(ToLower(hp.s), w)) =>
                    hp.out = <<class.colour>> \o hp.s \o <<colorReset>>

----------------------------------------------------------------------------
(* pkg/monitor: VolumeMonitor and NodeMonitor.  Start loops on a select    *)
(* over the context's Done channel and the ticker's channel, which holds   *)
(* at most one tick; Stop has an empty body.                               *)

MaxRefreshes == 5     \* the refreshes are counted modulo MaxRefreshes + 1

Monitors == {"VolumeMonitor", "NodeMonitor"}

InitMonitor ==
    /\ remote \in {r \in InitialRemotes : Deviations(r) = 0}
    /\ pc = "monitor"
    /\ last = NoLast
    /\ sz = NoSize
    /\ tbl = NoTable
    /\ js = NoJSON
    /\ cf = NoConfig
    /\ ts = NoReport
    /\ hp = NoCall
    /\ mon \in [monitor : Monitors, start : {"idle"}, ctxDone : BOOLEAN,
                stopped : {FALSE}, tick : {0}, refreshes : {0}]
    /\ inv = NoInvocations
    /\ dk = NoDiskCall

\* Start is called: time.NewTicker(interval), then the loop
MonitorStart ==
    /\ pc = "monitor" /\ mon.start = "idle"
    /\ mon' = [mon EXCEPT !.start = "running"]
    /\ UNCHANGED <<remote, pc, last, sz, tbl, js, cf, ts, hp, inv, dk>>

\* the interval has passed: the ticker sends on its channel unless a tick
\* is waiting there; a stopped ticker sends nothing
TickerFires ==
    /\ pc = "monitor" /\ mon.start = "running" /\ mon.tick = 0
    /\ mon' = [mon EXCEPT !.tick = 1]
    /\ UNCHANGED <<remote, pc, last, sz, tbl, js, cf, ts, hp, inv, dk>>

\* case <-ticker.C: refresh
StartRefresh ==
    /\ pc = "monitor" /\ mon.start = "running" /\ mon.tick = 1
    /\ mon' = [mon EXCEPT !.tick = 0,
                          !.refreshes = (mon.refreshes + 1) % (MaxRefreshes + 1)]
    /\ UNCHANGED <<remote, pc, last, sz, tbl, js, cf, ts, hp, inv, dk>>

\* case <-ctx.Done(): return ctx.Err(), and the deferred ticker.Stop()
StartReturn ==
    /\ pc = "monitor" /\ mon.start = "running" /\ mon.ctxDone
    /\ mon' = [mon EXCEPT !.start = "returned"]
    /\ UNCHANGED <<remote, pc, last, sz, tbl, js, cf, ts, hp, inv, dk>>

\* the caller cancels the context it gave to Start
ContextCancel ==
    /\ pc = "monitor" /\ ~mon.ctxDone
    /\ mon' = [mon EXCEPT !.ctxDone = TRUE]
    /\ UNCHANGED <<remote, pc, last, sz, tbl, js, cf, ts, hp, inv, dk>>

\* Stop: the body is empty; stopped records that it was called
MonitorStop ==
    /\ pc = "monitor" /\ ~mon.stopped
    /\ mon' = [mon EXCEPT !.stopped = TRUE]
    /\ UNCHANGED <<remote, pc, last, sz, tbl, js, cf, ts, hp, inv, dk>>

NextMonitor ==
    \/ MonitorStart
    \/ TickerFires
    \/ StartRefresh
    \/ StartReturn
    \/ ContextCancel
    \/ MonitorStop

\* time passes and the goroutine that runs Start is scheduled; whether the
\* caller cancels the context or calls Stop is up to the caller
SpecMonitor ==
    /\ InitMonitor /\ [][NextMonitor]_vars
    /\ WF_vars(TickerFires) /\ WF_vars(StartRefresh) /\ WF_vars(StartReturn)

\* C18: once Stop has been called on a monitor whose Start is running,
\* Start eventually returns, and no refresh is performed any more
C18_StopStopsMonitoring ==
    /\ [](pc = "monitor" /\ mon.stopped /\ mon.start = "running"
            => <>(mon.start = "returned"))
    /\ [][pc = "monitor" /\ mon.stopped => mon'.refreshes = mon.refreshes]_vars

----------------------------------------------------------------------------
(* Two invocations of AddNodeTag on the same node, each with its own tag   *)
(* and its own backend, their requests interleaved in any order.  The API  *)
(* server gives the node object a resourceVersion and refuses an Update    *)
(* that carries an older one; the manager's PUT has no such check.         *)

Invocations == {"first", "second"}
TagOf(p) == IF p = "first" THEN "ssd" ELSE "test"
Backends == {"crd", "rest"}

NoObject == [spec |-> NoSpec, resourceVersion |-> 0]
Invocation(backend) ==
    [backend |-> backend, at |-> "Get", tags |-> <<>>, object |-> NoObject, err |-> ""]

InitConcurrent ==
    /\ remote \in {r \in InitialRemotes :
                      /\ Deviations([r EXCEPT !.tags = <<>>]) = 0
                      /\ Len(r.tags) < MaxTags}
    /\ pc = "concurrent"
    /\ last = NoLast
    /\ sz = NoSize
    /\ tbl = NoTable
    /\ js = NoJSON
    /\ cf = NoConfig
    /\ ts = NoReport
    /\ hp = NoCall
    /\ mon = NoMonitor
    /\ \E b1 \in Backends, b2 \in Backends :
         inv = [resourceVersion |-> 1,
                of |-> [p \in Invocations |->
                          Invocation(IF p = "first" THEN b1 ELSE b2)]]
    /\ dk = NoDiskCall

\* node, err := c.Get(nodeName), and the loop that looks for the tag: the
\* invocation returns nil if the node has the tag, else it goes on to Update
AddNodeTagGet(p) ==
    /\ pc = "concurrent" /\ inv.of[p].at = "Get"
    /\ inv' = [inv EXCEPT !.of[p].tags = remote.tags,
                          !.of[p].at = IF TagOf(p) \in Range(remote.tags) THEN "returned"
                                       ELSE IF inv.of[p].backend = "crd" THEN "Update.Get"
                                       ELSE "Update.Put"]
    /\ UNCHANGED <<remote, pc, last, sz, tbl, js, cf, ts, hp, mon, dk>>

\* crdNodeClient.Update: the Get of the current object
CRDUpdateGet(p) ==
    /\ pc = "concurrent" /\ inv.of[p].at = "Update.Get"
    /\ inv' = [inv EXCEPT !.of[p].object = [spec |-> NodeSpec(remote),
                                            resourceVersion |-> inv.resourceVersion],
                          !.of[p].at = "Update.Update"]
    /\ UNCHANGED <<remote, pc, last, sz, tbl, js, cf, ts, hp, mon, dk>>

\* crdNodeClient.Update: spec.tags is set to append(node.Tags, tag) and the
\* object is sent back; the API server answers with a conflict if the
\* object has changed since the Get of Update
CRDUpdateUpdate(p) ==
    /\ pc = "concurrent" /\ inv.of[p].at = "Update.Update"
    /\ IF inv.of[p].object.resourceVersion = inv.resourceVersion
       THEN /\ remote' = K8sApply(remote, "Update", "nodes", NodeName,
                                  [inv.of[p].object.spec EXCEPT
                                      !.tags = GoAppend(Slice(inv.of[p].tags), TagOf(p)).elems])
            /\ inv' = [inv EXCEPT !.resourceVersion = @ + 1, !.of[p].at = "returned"]
       ELSE /\ remote' = remote
            /\ inv' = [inv EXCEPT !.of[p].at = "returned",
                                  !.of[p].err = "failed to update node"]
    /\ UNCHANGED <<pc, last, sz, tbl, js, cf, ts, hp, mon, dk>>

\* nodeClient.Update: PUT /v1/nodes/<name> with the tags
RESTUpdatePut(p) ==
    /\ pc = "concurrent" /\ inv.of[p].at = "Update.Put"
    /\ remote' = ServePutNode(remote,
                     MarshalNodeUpdate([EmptyNodeUpdate EXCEPT
                         !.Tags = GoAppend(Slice(inv.of[p].tags), TagOf(p))]))
    /\ inv' = [inv EXCEPT !.resourceVersion = @ + 1, !.of[p].at = "returned"]
    /\ UNCHANGED <<pc, last, sz, tbl, js, cf, ts, hp, mon, dk>>

NextConcurrent ==
    \/ \E p \in Invocations : AddNodeTagGet(p)
    \/ \E p \in Invocations : CRDUpdateGet(p)
    \/ \E p \in Invocations : CRDUpdateUpdate(p)
    \/ \E p \in Invocations : RESTUpdatePut(p)

SpecConcurrent == InitConcurrent /\ [][NextConcurrent]_vars

\* C20: when two invocations add different tags to the same node and both
\* return success, the node has both tags afterwards
C20_NoLostTag ==
    pc = "concurrent"
    /\ (\A p \in Invocations : inv.of[p].at = "returned" /\ inv.of[p].err = "")
    => \A p \in Invocations : TagOf(p) \in Range(remote.tags)

----------------------------------------------------------------------------
(* The disk operations of the node clients, with the attributes of the     *)
(* disks: a node with its disks, one operation on it by one backend, and   *)
(* the requests that operation sent.  Strings the code takes apart (disk   *)
(* paths, disk IDs) are sequences of their bytes.                          *)

\* most disks a node has when the operation starts
MaxNodeDisks == 2

Slash == "/"
Dash == "-"

\* strings.TrimPrefix(path, "/")
TrimPrefixSlash(path) ==
    IF Len(path) > 0 /\ path[1] = Slash THEN Drop(path, 1) ELSE path

\* strings.ReplaceAll(s, "/", "-")
ReplaceAllSlashes(s) == [i \in DOMAIN s |-> IF s[i] = Slash THEN Dash ELSE s[i]]

\* the loop of sanitizeDiskPath: from index i on, each "/" becomes "-"
RECURSIVE replaceFrom(_, _)
replaceFrom(sanitized, i) ==
    IF i > Len(sanitized) THEN sanitized
    ELSE replaceFrom(IF sanitized[i] = Slash
                     THEN SubSeq(sanitized, 1, i - 1) \o <<Dash>>
                          \o SubSeq(sanitized, i + 1, Len(sanitized))
                     ELSE sanitized,
                     i + 1)

sanitizeDiskPath(path) ==
    replaceFrom(IF Len(path) > 0 /\ path[1] = Slash THEN Drop(path, 1) ELSE path, 1)

DiskPrefix == <<"d", "i", "s", "k", "-">>

\* diskID := fmt.Sprintf("disk-%s", ...) of the two backends
crdDiskID(path) == DiskPrefix \o ReplaceAllSlashes(TrimPrefixSlash(path))
restDiskID(path) == DiskPrefix \o sanitizeDiskPath(path)

\* the paths of the disks: /a/b, /a-b and /c
DiskPaths == {<<"/", "a", "/", "b">>, <<"/", "a", "-", "b">>, <<"/", "c">>}

\* the ID of a disk that Longhorn created itself
DefaultDiskID == <<"d", "e", "f", "a", "u", "l", "t", "-", "d", "i", "s", "k">>

\* the attributes of a disk in spec.disks of the node object and in the
\* Disk the manager returns
DiskAttributes ==
    {"path", "allowScheduling", "storageReserved", "tags", "evictionRequested", "diskType"}

ReservedSizes == {0, 1024}
DiskTagLists == {<<>>, <<"ssd">>}
\* diskType is empty in the answer of a manager that does not report it
DiskTypes == {"", "block"}

\* the value of an attribute that an object does not have
ZeroAttribute(k) ==
    CASE k = "path" -> <<>>
      [] k = "allowScheduling" -> FALSE
      [] k = "storageReserved" -> 0
      [] k = "tags" -> <<>>
      [] k = "evictionRequested" -> FALSE
      [] k = "diskType" -> ""

Attribute(object, k) == IF k \in DOMAIN object THEN object[k] ELSE ZeroAttribute(k)

\* a disk with its ID: one that AddDisk made has the ID made of its path,
\* the disk Longhorn made has its own ID and is mounted at /a/b
NamedDisks ==
    {[id |-> restDiskID(p), path |-> p] : p \in DiskPaths}
        \cup {[id |-> DefaultDiskID, path |-> <<"/", "a", "/", "b">>]}

NodeDiskIDs == {d.id : d \in NamedDisks}

DiskSettings ==
    [allowScheduling : BOOLEAN, storageReserved : ReservedSizes, tags : DiskTagLists,
     evictionRequested : BOOLEAN, diskType : DiskTypes]

StoredDisk(path, s) ==
    [path |-> path, allowScheduling |-> s.allowScheduling,
     storageReserved |-> s.storageReserved, tags |-> s.tags,
     evictionRequested |-> s.evictionRequested, diskType |-> s.diskType]

\* the disks of a node with at most so many disks, each with some of the
\* given settings: a map from disk ID to disk
NodeDiskMaps(most, Settings) ==
    UNION {UNION {{[id \in ids |-> StoredDisk(paths[id], settings[id])] :
                        settings \in [ids -> Settings]} :
                    paths \in {f \in [ids -> DiskPaths] :
                                  \A id \in ids : [id |-> id, path |-> f[id]] \in NamedDisks}} :
             ids \in {S \in SUBSET NodeDiskIDs : Cardinality(S) <= most}}

NoRequest == [method |-> "", path |-> <<>>]

DiskCall(node, backend, call) ==
    [stage |-> "called", node |-> node, backend |-> backend, call |-> call,
     request |-> NoRequest, written |-> <<>>, answer |-> "", err |-> "", out |-> ""]

SchedulingCalls ==
    [op : {"EnableDiskScheduling", "DisableDiskScheduling"}, diskID : NodeDiskIDs]

\* AddDisk(nodeName, disk): Path, StorageReserved and Tags of the DiskUpdate
AddDiskCalls ==
    [op : {"AddDisk"}, path : DiskPaths, storageReserved : ReservedSizes,
     tags : DiskTagLists]

\* a flag of a command: whether it was passed, and its value (the default
\* if it was not passed)
Flag(passed, value) == [passed |-> passed, value |-> value]

\* the flags of node disk update and their defaults
TagsFlags == {Flag(FALSE, <<>>)} \cup {Flag(TRUE, tags) : tags \in DiskTagLists}
AllowSchedulingFlags == {Flag(FALSE, TRUE)} \cup {Flag(TRUE, b) : b \in BOOLEAN}
StorageReservedFlags == {Flag(FALSE, <<>>), Flag(TRUE, <<"1", "K", "i">>)}

\* lhcli node disk update <node-name> <disk-id> with its flags
DiskUpdateCommands ==
    [op : {"node disk update"}, diskID : NodeDiskIDs, tags : TagsFlags,
     allowScheduling : AllowSchedulingFlags, storageReserved : StorageReservedFlags]

\* the settings of a disk as AddDisk makes it; node disk update is run on
\* nodes whose disks all have them
FreshSettings ==
    [allowScheduling |-> TRUE, storageReserved |-> 0, tags |-> <<>>,
     evictionRequested |-> FALSE, diskType |-> ""]

InitDisks ==
    /\ remote \in {r \in InitialRemotes : Deviations(r) = 0}
    /\ pc = "disks"
    /\ last = NoLast
    /\ sz = NoSize
    /\ tbl = NoTable
    /\ js = NoJSON
    /\ cf = NoConfig
    /\ ts = NoReport
    /\ hp = NoCall
    /\ mon = NoMonitor
    /\ inv = NoInvocations
    /\ \/ \E node \in NodeDiskMaps(MaxNodeDisks, DiskSettings), backend \in Backends,
               call \in SchedulingCalls :
                dk = DiskCall(node, backend, call)
       \/ \E node \in NodeDiskMaps(MaxNodeDisks, DiskSettings), backend \in Backends,
               call \in AddDiskCalls :
                dk = DiskCall(node, backend, call)
       \/ \E node \in NodeDiskMaps(MaxNodeDisks, {FreshSettings}), backend \in Backends,
               call \in DiskUpdateCommands :
                dk = DiskCall(node, backend, call)

\* what the API server and the manager answer to a write
WriteAnswers == {"ok", "refused"}

\* crdNodeClient.updateDiskScheduling: the node object is read, the disk is
\* looked up in spec.disks, its allowScheduling is set and the object is
\* sent back with Update
CRDUpdateDiskScheduling ==
    /\ pc = "disks" /\ dk.stage = "called" /\ dk.backend = "crd"
    /\ dk.call.op \in {"EnableDiskScheduling", "DisableDiskScheduling"}
    /\ LET diskID == dk.call.diskID
           allowScheduling == dk.call.op = "EnableDiskScheduling"
       IN  IF DOMAIN dk.node = {}
           THEN dk' = [dk EXCEPT !.stage = "returned", !.err = "no disks found on node"]
           ELSE IF diskID \notin DOMAIN dk.node
           THEN dk' = [dk EXCEPT !.stage = "returned", !.err = "disk not found on node"]
           ELSE \E answer \in WriteAnswers :
                  dk' = [dk EXCEPT
                          !.stage = "returned",
                          !.request = [method |-> "Update", path |-> <<"nodes", NodeName>>],
                          !.written = [dk.node EXCEPT
                                          ![diskID].allowScheduling = allowScheduling],
                          !.answer = answer,
                          !.err = IF answer = "ok" THEN "" ELSE "failed to update node"]
    /\ UNCHANGED <<remote, pc, last, sz, tbl, js, cf, ts, hp, mon, inv>>

\* the payload updateDiskSchedulingViaNode makes of the disks of the node
disksPayload(disks) ==
    [id \in DOMAIN disks |->
        [path |-> disks[id].Path, allowScheduling |-> disks[id].AllowScheduling,
         storageReserved |-> disks[id].StorageReserved, tags |-> disks[id].Tags]]

\* the Disk that json.Decode makes of a disk in the manager's answer
DecodeDisk(d) ==
    [Path |-> d.path, AllowScheduling |-> d.allowScheduling,
     EvictionRequested |-> d.evictionRequested, StorageReserved |-> d.storageReserved,
     DiskType |-> d.diskType, Tags |-> d.tags]

\* nodeClient.updateDiskScheduling: PATCH of the disk, answered with status;
\* on 404 and 405 updateDiskSchedulingViaNode reads the node, sets
\* AllowScheduling of the disk and PUTs the payload of all disks
RESTUpdateDiskScheduling ==
    /\ pc = "disks" /\ dk.stage = "called" /\ dk.backend = "rest"
    /\ dk.call.op \in {"EnableDiskScheduling", "DisableDiskScheduling"}
    /\ \E status \in {StatusOK, StatusNotFound, StatusMethodNotAllowed} :
         LET diskID == dk.call.diskID
             allowScheduling == dk.call.op = "EnableDiskScheduling"
             Disks == [id \in DOMAIN dk.node |-> DecodeDisk(dk.node[id])]
         IN  IF status = StatusOK
             THEN dk' = [dk EXCEPT
                            !.stage = "returned",
                            !.request = [method |-> "PATCH",
                                         path |-> <<"nodes", NodeName, "disks", diskID>>],
                            !.written = [allowScheduling |-> allowScheduling],
                            !.answer = "ok"]
             ELSE IF diskID \notin DOMAIN Disks
             THEN dk' = [dk EXCEPT !.stage = "returned", !.err = "disk not found on node"]
             ELSE \E answer \in WriteAnswers :
                    dk' = [dk EXCEPT
                            !.stage = "returned",
                            !.request = [method |-> "PUT", path |-> <<"nodes", NodeName>>],
                            !.written = disksPayload(
                                [Disks EXCEPT ![diskID].AllowScheduling = allowScheduling]),
                            !.answer = answer,
                            !.err = IF answer = "ok" THEN ""
                                    ELSE "failed to update disk scheduling"]
    /\ UNCHANGED <<remote, pc, last, sz, tbl, js, cf, ts, hp, mon, inv>>

\* newDisk of crdNodeClient.AddDisk: tags only if there are any
newDisk(disk) ==
    IF Len(disk.tags) > 0
    THEN [path |-> disk.path, allowScheduling |-> TRUE,
          storageReserved |-> disk.storageReserved, tags |-> disk.tags]
    ELSE [path |-> disk.path, allowScheduling |-> TRUE,
          storageReserved |-> disk.storageReserved]

\* diskData of nodeClient.AddDisk
diskData(disk) ==
    [path |-> disk.path, allowScheduling |-> TRUE,
     storageReserved |-> disk.storageReserved, tags |-> disk.tags]

\* crdNodeClient.AddDisk: the node object is read, the disk ID is made of
\* the path; if spec.disks has that ID the call fails, else the new disk is
\* put into spec.disks under that ID and the object is sent back with Update
CRDAddDisk ==
    /\ pc = "disks" /\ dk.stage = "called" /\ dk.backend = "crd"
    /\ dk.call.op = "AddDisk"
    /\ LET diskID == crdDiskID(dk.call.path) IN
         IF diskID \in DOMAIN dk.node
         THEN dk' = [dk EXCEPT !.stage = "returned",
                               !.err = "disk with path already exists"]
         ELSE \E answer \in WriteAnswers :
                dk' = [dk EXCEPT
                        !.stage = "returned",
                        !.request = [method |-> "Update", path |-> <<"nodes", NodeName>>],
                        !.written = [id \in DOMAIN dk.node \cup {diskID} |->
                                        IF id = diskID THEN newDisk(dk.call)
                                        ELSE dk.node[id]],
                        !.answer = answer,
                        !.err = IF answer = "ok" THEN "" ELSE "failed to update node"]
    /\ UNCHANGED <<remote, pc, last, sz, tbl, js, cf, ts, hp, mon, inv>>

\* nodeClient.AddDisk: the node is read, the disk ID is made of the path; if
\* node.Disks has that ID the call fails, else the disk is POSTed
RESTAddDisk ==
    /\ pc = "disks" /\ dk.stage = "called" /\ dk.backend = "rest"
    /\ dk.call.op = "AddDisk"
    /\ LET diskID == restDiskID(dk.call.path)
           Disks == [id \in DOMAIN dk.node |-> DecodeDisk(dk.node[id])]
       IN  IF diskID \in DOMAIN Disks
           THEN dk' = [dk EXCEPT !.stage = "returned",
                                 !.err = "disk with path already exists"]
           ELSE \E answer \in WriteAnswers :
                  dk' = [dk EXCEPT
                          !.stage = "returned",
                          !.request = [method |-> "POST",
                                       path |-> <<"nodes", NodeName, "disks">>],
                          !.written = diskData(dk.call),
                          !.answer = answer,
                          !.err = IF answer = "ok" THEN "" ELSE "failed to add disk"]
    /\ UNCHANGED <<remote, pc, last, sz, tbl, js, cf, ts, hp, mon, inv>>

NoWrite == [request |-> NoRequest, written |-> <<>>, answer |-> "", err |-> ""]

\* crdNodeClient.UpdateDiskTags: the node object is read, the disk is
\* looked up in spec.disks, its tags are set (removed if the list is
\* empty) and the object is sent back with Update
crdUpdateDiskTags(node, diskID, tags, answer) ==
    IF DOMAIN node = {} THEN [NoWrite EXCEPT !.err = "no disks found on node"]
    ELSE IF diskID \notin DOMAIN node THEN [NoWrite EXCEPT !.err = "disk not found on node"]
    ELSE [request |-> [method |-> "Update", path |-> <<"nodes", NodeName>>],
          written |-> [id \in DOMAIN node |->
                          IF id # diskID THEN node[id]
                          ELSE IF Len(tags) > 0 THEN [node[id] EXCEPT !.tags = tags]
                          ELSE [k \in DOMAIN node[id] \ {"tags"} |-> node[id][k]]],
          answer |-> answer,
          err |-> IF answer = "ok" THEN "" ELSE "failed to update node"]

\* nodeClient.UpdateDiskTags: PATCH of the disk with the tags
restUpdateDiskTags(node, diskID, tags, answer) ==
    [request |-> [method |-> "PATCH", path |-> <<"nodes", NodeName, "disks", diskID>>],
     written |-> [tags |-> tags],
     answer |-> answer,
     err |-> IF answer = "ok" THEN "" ELSE "failed to update disk tags"]

\* runNodeDiskUpdate, once getClient has made the client: the value of
\* --tags is read; if it has tags, UpdateDiskTags is called and its error
\* ends the command; then the success message is printed
runNodeDiskUpdate ==
    /\ pc = "disks" /\ dk.stage = "called"
    /\ dk.call.op = "node disk update"
    /\ \E answer \in WriteAnswers :
         LET diskID == dk.call.diskID
             tags == dk.call.tags.value
             r == IF dk.backend = "crd"
                  THEN crdUpdateDiskTags(dk.node, diskID, tags, answer)
                  ELSE restUpdateDiskTags(dk.node, diskID, tags, answer)
         IN  IF Len(tags) > 0
             THEN dk' = [dk EXCEPT
                            !.stage = "returned",
                            !.request = r.request,
                            !.written = r.written,
                            !.answer = r.answer,
                            !.err = IF r.err # "" THEN "failed to update disk tags" ELSE "",
                            !.out = IF r.err # "" THEN "" ELSE "Disk updated on node"]
             ELSE dk' = [dk EXCEPT !.stage = "returned", !.out = "Disk updated on node"]
    /\ UNCHANGED <<remote, pc, last, sz, tbl, js, cf, ts, hp, mon, inv>>

NextDisks ==
    \/ CRDUpdateDiskScheduling
    \/ RESTUpdateDiskScheduling
    \/ CRDAddDisk
    \/ RESTAddDisk
    \/ runNodeDiskUpdate

SpecDisks == InitDisks /\ [][NextDisks]_vars

\* the operation wrote the disks of the node back as a whole
WroteAllDisks ==
    /\ pc = "disks" /\ dk.stage = "returned"
    /\ dk.request.method \in {"Update", "PUT"}
    /\ dk.request.path = <<"nodes", NodeName>>

\* C21: when EnableDiskScheduling or DisableDiskScheduling writes the disks
\* of the node back, every disk that was read is written, and with every
\* attribute it was read with, except for allowScheduling of the disk the
\* call names; an attribute that is not written counts as its zero value
C21_SchedulingFrame ==
    WroteAllDisks /\ dk.call.op \in {"EnableDiskScheduling", "DisableDiskScheduling"}
    => \A id \in DOMAIN dk.node :
          /\ id \in DOMAIN dk.written
          /\ \A k \in DiskAttributes :
                \/ id = dk.call.diskID /\ k = "allowScheduling"
                \/ Attribute(dk.written[id], k) = dk.node[id][k]

AddDiskReturned == pc = "disks" /\ dk.stage = "returned" /\ dk.call.op = "AddDisk"

\* the node has a disk with the path of the disk that AddDisk is to add
PathInUse == \E id \in DOMAIN dk.node : dk.node[id].path = dk.call.path

\* AddDisk sent the node's disks with one more disk, which has the path,
\* and with the disks it read as they were, or it POSTed a disk with the path
AddedOneDisk ==
    \/ /\ dk.request = [method |-> "Update", path |-> <<"nodes", NodeName>>]
       /\ DOMAIN dk.node \subseteq DOMAIN dk.written
       /\ \E id \in DOMAIN dk.written :
              /\ DOMAIN dk.written \ DOMAIN dk.node = {id}
              /\ dk.written[id].path = dk.call.path
       /\ \A id \in DOMAIN dk.node : dk.written[id] = dk.node[id]
    \/ /\ dk.request = [method |-> "POST", path |-> <<"nodes", NodeName, "disks">>]
       /\ dk.written.path = dk.call.path

\* C22: AddDisk fails with "disk with path ... already exists", and sends
\* no request, exactly when a disk of the node has the path; when no disk
\* has it, AddDisk writes one new disk with the path and no change to the
\* disks the node had
C22_AddDisk ==
    AddDiskReturned
    => /\ (dk.err = "disk with path already exists" /\ dk.request = NoRequest) <=> PathInUse
       /\ ~PathInUse => AddedOneDisk

DiskUpdatePrinted ==
    /\ pc = "disks" /\ dk.stage = "returned" /\ dk.call.op = "node disk update"
    /\ dk.out = "Disk updated on node"

\* a request that updates the disk was sent and was answered with success
DiskUpdateSent ==
    /\ dk.answer = "ok"
    /\ \/ dk.request = [method |-> "PATCH",
                        path |-> <<"nodes", NodeName, "disks", dk.call.diskID>>]
       \/ /\ dk.request = [method |-> "Update", path |-> <<"nodes", NodeName>>]
          /\ dk.call.diskID \in DOMAIN dk.written

\* what the request says about the disk
UpdatedDisk ==
    IF dk.request.method = "Update" THEN dk.written[dk.call.diskID] ELSE dk.written

\* the byte count a value of --storage-reserved stands for (ParseSize, as
\* node disk add applies it to its flag of that name)
ReservedBytes(text) == Low3(ParseSize(text, MinInt64).bytes.mag)

\* C23: when node disk update has printed its success message, a request
\* that updates the disk was sent and succeeded, and for each flag that was
\* passed the request gives the disk the value of the flag (tags that are
\* not in the request count as no tags)
C23_DiskUpdate ==
    DiskUpdatePrinted
    => /\ DiskUpdateSent
       /\ dk.call.tags.passed => Attribute(UpdatedDisk, "tags") = dk.call.tags.value
       /\ dk.call.allowScheduling.passed
            => /\ "allowScheduling" \in DOMAIN UpdatedDisk
               /\ UpdatedDisk.allowScheduling = dk.call.allowScheduling.value
       /\ dk.call.storageReserved.passed
            => /\ "storageReserved" \in DOMAIN UpdatedDisk
               /\ UpdatedDisk.storageReserved
                    = ReservedBytes(dk.call.storageReserved.value)

----------------------------------------------------------------------------
(* Properties of the command line.  After an invocation, last holds what   *)
(* it was run with and what it did, and remote is the state it left.       *)

\* the invocation sent a request that asks the remote side to change something
MutatingSent == \E i \in DOMAIN last.reqs : IsMutating(last.reqs[i])

\* the commands the documentation calls destructive
Destructive ==
    {"volume delete", "replica delete", "node evict", "snapshot delete", "node disk remove"}

\* C1: when --dry-run is set, a command sends no mutating request and the
\* remote state is the same after as before.
C1_DryRunChangesNothing ==
    (pc = "done" /\ last.dryRun) => (~MutatingSent /\ remote = last.before)

\* C2: a destructive command sends a request only after --force was passed
\* or the question was answered with y or yes; otherwise it sends nothing.
C2_DestructiveNeedsConsent ==
    (pc = "done" /\ last.cmd \in Destructive /\ ~last.force /\ ~Confirm(last.stdin))
        => last.reqs = <<>>

\* C3: after a tag removal that returned without error, the node's tag list
\* is the list it had before without the tag, the other tags in their order.
C3_RemoveNodeTagRemoves ==
    (pc = "done" /\ last.cmd = "node tag remove" /\ last.err = "")
        => remote.tags = FilterOut(last.before.tags, last.args[2])

\* C4: AddNodeTag of a tag the node has sends no update and leaves the list
\* as it is; of a tag the node lacks, it appends the tag once; and a second
\* AddNodeTag of the same tag, if it succeeds, leaves the list as the first did.
C4_AddNodeTagIdempotent ==
    (pc = "done" /\ last.cmd = "node tag add" /\ last.err = "")
        => /\ last.args[2] \in Range(last.before.tags)
                => (~MutatingSent /\ remote.tags = last.before.tags)
           /\ last.args[2] \notin Range(last.before.tags)
                => remote.tags = Append(last.before.tags, last.args[2])
           /\ \A f \in Faults(last.auth, 2, 3) :
                \A again \in {Nodes(getClient(last.auth).client,
                                    crdNodeClient_AddNodeTag(remote, <<>>, f, NodeName,
                                                             last.args[2]),
                                    nodeClient_AddNodeTag(remote, <<>>, f, NodeName,
                                                          last.args[2]))} :
                    again.err = ""
                        => /\ again.rem.tags = remote.tags
                           /\ \A i \in DOMAIN again.reqs : ~IsMutating(again.reqs[i])

\* a tag was appended to a list that had another tag
C4_Appended ==
    /\ pc = "done" /\ last.cmd = "node tag add" /\ last.err = ""
    /\ last.before.tags # <<>>
    /\ last.args[2] \notin Range(last.before.tags)
    /\ remote.tags = Append(last.before.tags, last.args[2])
    /\ MutatingSent

\* a request of the invocation that came back with an error
FailedAt(i) == i \in DOMAIN last.reqs /\ Failed(last.reqs[i])

\* the replica listing that crdVolumeClient.List and Get make after the volumes
IsReplicaListing(rq) == rq.via = "crd" /\ rq.method = "List" /\ rq.path[3] = "replicas"

\* the node listing of the Kubernetes backend
IsNodeListing(rq) == rq.via = "crd" /\ rq.method = "List" /\ rq.path[3] = "nodes"

\* the commands that report failed remote calls and still return nil
Reporting == {"troubleshoot", "diagnostics"}

\* a failed request that the command running it does not turn into an error
ToleratedByCommand(i) ==
    \/ last.cmd \in Reporting
    \/ last.cmd \in {"volume list", "volume get"} /\ IsReplicaListing(last.reqs[i])
    \/ last.cmd = "volume list" /\ IsNodeListing(last.reqs[i])

RequestsOf(c) == c.first .. c.last

\* EnableDiskScheduling / DisableDiskScheduling of the REST backend go on
\* after a PATCH answered 404 or 405
IsFallback(c, rq) ==
    /\ c.op \in {"Nodes.EnableDiskScheduling", "Nodes.DisableDiskScheduling"}
    /\ rq.via = "http" /\ rq.method = "PATCH"
    /\ rq.status \in {StatusNotFound, StatusMethodNotAllowed}

\* Volumes().List and Get of the Kubernetes backend return the volumes when
\* their replica listing failed
IsIgnoredListing(c, rq) == c.op \in {"Volumes.List", "Volumes.Get"} /\ IsReplicaListing(rq)

Complete(cmd, args, rem) ==
    CASE cmd = "volume list" ->
            {VolumeOf(rem, v, ReplicasOf(rem, v)) : v \in ExistingVolumes(rem)}
      [] cmd = "volume get" -> VolumeOf(rem, args[1], ReplicasOf(rem, args[1]))
      [] cmd = "node list" -> <<NodeOf(rem)>>
      [] cmd = "node get" -> NodeOf(rem)

Listings == {"volume list", "volume get", "node list", "node get"}

VolumeVerbs ==
    {"volume list", "volume get", "volume create", "volume delete", "volume update"}

\* the handler reached its call of the volume client
ReachedClient == last.calls # <<>>

\* C8: with the REST backend, each volume verb sends a request to /v1/volumes.
C8_VolumeVerbsUseREST ==
    (pc = "done" /\ last.cmd \in VolumeVerbs /\ last.auth \in {"token", "none"}
        /\ ReachedClient)
        => \E i \in DOMAIN last.reqs :
              /\ last.reqs[i].via = "http"
              /\ Len(last.reqs[i].path) >= 2
              /\ last.reqs[i].path[1] = "v1" /\ last.reqs[i].path[2] = "volumes"

\* C19: with a client built for kubeconfig auth every operation reached
\* through the client's accessors ends with a result or an error: none
\* reaches Client.doRequest with the nil HTTP client and panics
C19_KubeconfigNeverPanics ==
    pc = "done" /\ last.auth = "kubeconfig" => last.err # "panic" /\ last.exit # 2

====
